---- MODULE Spec2Model ----
(***************************************************************************)
(* md2pptx (src/src/md2pptx/main.py): the main compile pass of cli() and   *)
(* the layout helpers scalePicture, createContentSlide, createTOCSlide,    *)
(* createTableBlock and the paginating slide creators.                     *)
(*                                                                         *)
(* Python's true division yields floats.  Quotients are kept exact here as *)
(* fractions <<numerator, denominator>> with a positive denominator; int() *)
(* of a quotient is modelled by Trunc.                                     *)
(***************************************************************************)
EXTENDS Integers, Sequences, FiniteSets, TLC

\* ------------------------------------------------------------------------
\* Bounds
\* ------------------------------------------------------------------------
MaxDim == 4

\* longest contentSplit value given by the user, longest slide sequence laid out
MaxUserWeights == 2

MaxSeqLen == 3

\* most bullets on a table-of-contents slide
MaxTOCBullets == 7

\* most footnotes, glossary terms or tasks; largest page size
MaxItems == 4

MaxPerPage == 3

\* most characters of a table cell, most cells of an alignment row
MaxCellLen == 3

MaxCols == 2

\* lines of input read by pass 5
MaxLines == 5

\* lines of a document compiled as a whole
MaxDocLen == 3

\* lines of an input file taken through passes 1 to 5
MaxInputLen == 4

\* most rows of a grid and most cells of a row handed to createTableBlock
MaxGridRows == 3

MaxGridColumns == 3

\* most slides createSlide hands to createTOCSlide in one run, and most
\* bullets of such a slide
MaxDeckSlides == 2

MaxDeckBullets == 2

\* most metadata lines and dynamic directives of one document
MaxOptionLines == 2

\* most cards of a list block
MaxCards == 3

\* most cells of a row of a ruled table whose cells are merged
MaxSpanCells == 4

\* ------------------------------------------------------------------------
\* Program constants
\* ------------------------------------------------------------------------
maxBlocks == 10

\* pptx.util.Inches(1) in the length unit of the model (914400 EMU in
\* python-pptx); Inches(x) is int(x * EmuPerInch)
EmuPerInch == 20

\* ------------------------------------------------------------------------
\* Exact arithmetic for Python's "/" and int()
\* ------------------------------------------------------------------------
Frac(n, d) == <<n, d>>

FracInt(n) == <<n, 1>>

FracEq(a, b) == a[1] * b[2] = b[1] * a[2]

FracLe(a, b) == a[1] * b[2] <= b[1] * a[2]

FracGt(a, b) == a[1] * b[2] > b[1] * a[2]

Abs(n) == IF n >= 0 THEN n ELSE -n

\* int(n / d) for d # 0: truncation towards zero
Trunc(n, d) ==
    IF (n >= 0) = (d > 0) THEN Abs(n) \div Abs(d) ELSE -(Abs(n) \div Abs(d))

RECURSIVE GCD(_, _)
GCD(m, n) == IF n = 0 THEN m ELSE GCD(n, m % n)

FracNorm(a) ==
    LET g == GCD(Abs(a[1]), a[2])
    IN  IF g = 0 THEN a ELSE <<a[1] \div g, a[2] \div g>>

FracAdd(a, c) == FracNorm(<<a[1] * c[2] + c[1] * a[2], a[2] * c[2]>>)

FracSub(a, c) == FracNorm(<<a[1] * c[2] - c[1] * a[2], a[2] * c[2]>>)

FracMul(a, c) == FracNorm(<<a[1] * c[1], a[2] * c[2]>>)

FracHalf(a) == FracNorm(<<a[1], 2 * a[2]>>)

\* Inches(n / d), d > 0
Inches(n, d) == Trunc(n * EmuPerInch, d)

Min(a, b) == IF a <= b THEN a ELSE b

Max(a, b) == IF a >= b THEN a ELSE b

VARIABLES
    \* scalePicture
    maxPicWidth, maxPicHeight, imageWidth, imageHeight, picResult,
    \* createContentSlide
    contentSplit, contentSplitDirection, slideInfoSequence,
    contentTop, contentLeft, contentHeight, contentWidth,
    blocksToRender, allContentSplit, verticalCursor, horizontalCursor,
    b, renderingRectangles, splitPc,
    \* createTOCSlide
    tocStyle, TOCItemHeight, TOCRowGap, slide_width, marginBase,
    slideTitleBottom, tocContentHeight, tocBullets, TOCEntries,
    height, width, entryGap, rowGap, TOCEntriesPerRow, rowCount,
    TOCtop, TOCleft, x, y, AbsoluteTOCEntryNumber, TOCEntryNumber,
    tocShapes, tocPc,
    \* createFootnoteSlides, createGlossarySlides, createTaskSlides
    pgKind, pgItems, perPage, itemNumber, pageRows, old_sNum, pageCounter,
    pagesEmitted, pgSlideNumber, pgPc,
    \* createTableBlock
    tableGrid, inputGrid, columns, haveTableHeading, alignments, widths,
    widths_total, rows, tblPc,
    \* cli, pass 5
    inBlock, inList, inTable, inCard, inTitle, inCode, inHTMLCode,
    inFencedCode, blockType, slideTitle, slideSubtitle, bullets, tableRows,
    cards, cardBullets, code, sequence, notes_text, slide, tasks,
    slideNumber, href, hrefBound, slideHrefs, lastTableLine, tableCaptions,
    tableCaption, tableCaptionBound, lineNumber, slides, raised, compilePc,
    lineRead, slideHeadings, headingLevels, titleRegion, declaredRefs,
    pass2, pass5Start,
    \* cli, a whole document
    document, compiledAsIs, compiledClosed, documentPc,
    \* cli, passes 1 to 4
    input_file, metadata_lines, afterMetadataAndHTML,
    linesAfterConcatenation, codeFlags, footnoteDefinitions,
    indirectAnchors, compiledLines, normalizePc,
    \* createTableBlock, graphics grid
    gridTableRows, isGraphicsGrid, gridPc,
    \* the TOC-style slides createSlide has laid out so far in the run
    laidOut,
    \* the options: the store, the metadata pairs, what was printed, the line read
    processingOptions, metadata, optionReports, optionLine,
    optionLines, optionPc,
    \* createListBlock: the block, the options, the regions, the cards placed
    renderingRectangle, bulletCount, cardCount, cardPercent,
    cardLayout, cardTitlePosition, horizontalCardGap, verticalCardGap,
    cardTitleHeight, listMargin, bulletsShapeHeight, cardAreaHeight,
    cardAreaTop, cardWidth, cardHeight, paddingFactor, cardNumber,
    cardShapes, listPc,
    \* createTableBlock on a graphics grid, inside the block loop of createContentSlide
    mediaTableRows, mediaReports, mediaTiles, mediaSequence,
    mediaRendered, mediaPc,
    \* createTableBlock, ruled table: the table shape and its columns
    tblRectangle, tblMargin, tblMarginBase, newTableShape, colWidths,
    shapePc,
    \* createTableBlock, ruled table: filling in and merging the cells
    spanTableRows, spanCells, spanColumns, rowNumber, columnNumber,
    potentialAnchorCell, gridSpan, hMerge, spanPc

picVars == <<maxPicWidth, maxPicHeight, imageWidth, imageHeight, picResult>>

splitVars == <<contentSplit, contentSplitDirection, slideInfoSequence,
               contentTop, contentLeft, contentHeight, contentWidth,
               blocksToRender, allContentSplit, verticalCursor, horizontalCursor,
               b, renderingRectangles, splitPc>>

tocInputs == <<tocStyle, TOCItemHeight, TOCRowGap, slide_width, marginBase,
               slideTitleBottom, tocContentHeight, tocBullets>>

tocGeometry == <<height, width, entryGap, rowGap, TOCEntriesPerRow, rowCount,
                 TOCtop, TOCleft>>

tocVars == <<tocInputs, TOCEntries, tocGeometry, x, y,
             AbsoluteTOCEntryNumber, TOCEntryNumber, tocShapes, tocPc>>

pageVars == <<pgKind, pgItems, perPage, itemNumber, pageRows, old_sNum,
              pageCounter, pagesEmitted, pgSlideNumber, pgPc>>

tableVars == <<tableGrid, inputGrid, columns, haveTableHeading, alignments,
               widths, widths_total, rows, tblPc>>

compileFlags == <<inBlock, inList, inTable, inCard, inTitle, inCode,
                  inHTMLCode, inFencedCode>>

compileSlide == <<blockType, slideTitle, slideSubtitle, bullets, tableRows,
                  cards, cardBullets, code, sequence, notes_text>>

compileVars == <<compileFlags, compileSlide, slide, tasks, slideNumber, href,
                 hrefBound, slideHrefs, lastTableLine, tableCaptions,
                 tableCaption, tableCaptionBound, lineNumber, slides, raised,
                 compilePc, lineRead, slideHeadings, headingLevels,
                 titleRegion, declaredRefs, pass2, pass5Start>>

documentVars == <<document, compiledAsIs, compiledClosed, documentPc>>

normalizeVars == <<input_file, metadata_lines, afterMetadataAndHTML,
                   linesAfterConcatenation, codeFlags,
                   footnoteDefinitions, indirectAnchors, compiledLines,
                   normalizePc>>

gridVars == <<gridTableRows, isGraphicsGrid, gridPc>>

deckVars == <<laidOut>>

optionVars == <<processingOptions, metadata, optionReports, optionLine,
                optionLines, optionPc>>

listVars == <<renderingRectangle, bulletCount, cardCount, cardPercent,
              cardLayout, cardTitlePosition, horizontalCardGap,
              verticalCardGap, cardTitleHeight, listMargin,
              bulletsShapeHeight, cardAreaHeight, cardAreaTop, cardWidth,
              cardHeight, paddingFactor, cardNumber, cardShapes, listPc>>

mediaVars == <<mediaTableRows, mediaReports, mediaTiles, mediaSequence,
               mediaRendered, mediaPc>>

shapeVars == <<tblRectangle, tblMargin, tblMarginBase, newTableShape,
               colWidths, shapePc>>

spanVars == <<spanTableRows, spanCells, spanColumns, rowNumber,
              columnNumber, potentialAnchorCell, gridSpan, hMerge,
              spanPc>>

vars == <<picVars, splitVars, tocVars, pageVars, tableVars, compileVars,
          documentVars, normalizeVars, gridVars, deckVars, optionVars,
          listVars, mediaVars, shapeVars, spanVars>>

notPic == <<splitVars, tocVars, pageVars, tableVars, compileVars,
            documentVars, normalizeVars, gridVars, deckVars, optionVars,
            listVars, mediaVars, shapeVars, spanVars>>

notSplit == <<picVars, tocVars, pageVars, tableVars, compileVars,
              documentVars, normalizeVars, gridVars, deckVars, optionVars,
              listVars, mediaVars, shapeVars, spanVars>>

notTOC == <<picVars, splitVars, pageVars, tableVars, compileVars,
            documentVars, normalizeVars, gridVars, deckVars, optionVars,
            listVars, mediaVars, shapeVars, spanVars>>

notPages == <<picVars, splitVars, tocVars, tableVars, compileVars,
              documentVars, normalizeVars, gridVars, deckVars, optionVars,
              listVars, mediaVars, shapeVars, spanVars>>

notTable == <<picVars, splitVars, tocVars, pageVars, compileVars,
              documentVars, normalizeVars, gridVars, deckVars, optionVars,
              listVars, mediaVars, shapeVars, spanVars>>

notCompile == <<picVars, splitVars, tocVars, pageVars, tableVars,
                documentVars, normalizeVars, gridVars, deckVars,
                optionVars, listVars, mediaVars, shapeVars, spanVars>>

notDocument == <<picVars, splitVars, tocVars, pageVars, tableVars,
                 compileVars, normalizeVars, gridVars, deckVars,
                 optionVars, listVars, mediaVars, shapeVars, spanVars>>

notNormalize == <<picVars, splitVars, tocVars, pageVars, tableVars,
                  compileVars, documentVars, gridVars, deckVars,
                  optionVars, listVars, mediaVars, shapeVars, spanVars>>

notGrid == <<picVars, splitVars, tocVars, pageVars, tableVars,
             compileVars, documentVars, normalizeVars, deckVars,
             optionVars, listVars, mediaVars, shapeVars, spanVars>>

notDeck == <<picVars, splitVars, tocVars, pageVars, tableVars,
             compileVars, documentVars, normalizeVars, gridVars,
             optionVars, listVars, mediaVars, shapeVars, spanVars>>

notTOCOrDeck == <<picVars, splitVars, pageVars, tableVars, compileVars,
                  documentVars, normalizeVars, gridVars, optionVars,
                  listVars, mediaVars, shapeVars, spanVars>>

notOptions == <<picVars, splitVars, tocVars, pageVars, tableVars,
                compileVars, documentVars, normalizeVars, gridVars,
                deckVars, listVars, mediaVars, shapeVars, spanVars>>

notList == <<picVars, splitVars, tocVars, pageVars, tableVars,
             compileVars, documentVars, normalizeVars, gridVars, deckVars,
             optionVars, mediaVars, shapeVars, spanVars>>

notMedia == <<picVars, splitVars, tocVars, pageVars, tableVars,
              compileVars, documentVars, normalizeVars, gridVars,
              deckVars, optionVars, listVars, shapeVars, spanVars>>

notShape == <<picVars, splitVars, tocVars, pageVars, tableVars,
              compileVars, documentVars, normalizeVars, gridVars,
              deckVars, optionVars, listVars, mediaVars, spanVars>>

notSpan == <<picVars, splitVars, tocVars, pageVars, tableVars,
             compileVars, documentVars, normalizeVars, gridVars, deckVars,
             optionVars, listVars, mediaVars, shapeVars>>

\* ========================================================================
\* scalePicture
\* ========================================================================
NoResult == [called |-> FALSE]

\* mutant: the comparison is turned round, so the wrong dimension is pinned
scalePictureWrongBranch(maxW, maxH, imgW, imgH) ==
    LET heightIfWidthUsed == Frac(maxW * imgH, imgW)
        widthIfHeightUsed == Frac(maxH * imgW, imgH)
    IN  IF FracGt(FracInt(maxH), heightIfWidthUsed)
        THEN [called |-> TRUE, picWidth |-> widthIfHeightUsed,
              picHeight |-> FracInt(maxH), usingHeightToScale |-> TRUE]
        ELSE [called |-> TRUE, picWidth |-> FracInt(maxW),
              picHeight |-> heightIfWidthUsed, usingHeightToScale |-> FALSE]

\* mutant: scaling by height keeps the box's width, stretching the picture
scalePictureStretch(maxW, maxH, imgW, imgH) ==
    LET heightIfWidthUsed == Frac(maxW * imgH, imgW)
    IN  IF FracGt(heightIfWidthUsed, FracInt(maxH))
        THEN [called |-> TRUE, picWidth |-> FracInt(maxW),
              picHeight |-> FracInt(maxH), usingHeightToScale |-> TRUE]
        ELSE [called |-> TRUE, picWidth |-> FracInt(maxW),
              picHeight |-> heightIfWidthUsed, usingHeightToScale |-> FALSE]

scalePicture(maxW, maxH, imgW, imgH) ==
    LET heightIfWidthUsed == Frac(maxW * imgH, imgW)
        widthIfHeightUsed == Frac(maxH * imgW, imgH)
    IN  IF FracGt(heightIfWidthUsed, FracInt(maxH))
        THEN [called |-> TRUE, picWidth |-> widthIfHeightUsed,
              picHeight |-> FracInt(maxH), usingHeightToScale |-> TRUE]
        ELSE [called |-> TRUE, picWidth |-> FracInt(maxW),
              picHeight |-> heightIfWidthUsed, usingHeightToScale |-> FALSE]

PicInit ==
    /\ maxPicWidth \in 1..MaxDim
    /\ maxPicHeight \in 1..MaxDim
    /\ imageWidth \in 1..MaxDim
    /\ imageHeight \in 1..MaxDim
    /\ picResult = NoResult

PicIdle ==
    /\ maxPicWidth = 1
    /\ maxPicHeight = 1
    /\ imageWidth = 1
    /\ imageHeight = 1
    /\ picResult = NoResult

ScalePictureCall ==
    /\ ~ picResult.called
    /\ picResult' = scalePicture(maxPicWidth, maxPicHeight, imageWidth, imageHeight)
    /\ UNCHANGED <<maxPicWidth, maxPicHeight, imageWidth, imageHeight>>
    /\ UNCHANGED notPic

PicNext == ScalePictureCall

\* ========================================================================
\* createContentSlide: dividing the content rectangle among the blocks
\* ========================================================================
Rectangle(t, l, h, w) == [top |-> t, left |-> l, height |-> h, width |-> w]

\* the contentSplit option: the integers given, extended with 1s to maxBlocks
ParseContentSplit(cs) ==
    cs \o [i \in 1..Max(0, maxBlocks - Len(cs)) |-> 1]

WeightValues == {-1, 0, 1, 2}

UserSplits == UNION {[1..n -> WeightValues] : n \in 0..MaxUserWeights}

BlockTags == <<"list", "table", "code">>

\* a slide's sequence of n block tags
SequenceOfLen(n) == [i \in 1..n |-> BlockTags[((i - 1) % 3) + 1]]

SplitInit ==
    /\ contentSplit \in {ParseContentSplit(cs) : cs \in UserSplits}
    /\ contentSplitDirection \in {"vertical", "horizontal"}
    /\ slideInfoSequence \in {SequenceOfLen(n) : n \in 0..MaxSeqLen}
    /\ contentTop = 20
    /\ contentLeft = 10
    /\ contentHeight \in {200, 300}
    /\ contentWidth \in {300, 301}
    /\ blocksToRender = 0
    /\ allContentSplit = 0
    /\ verticalCursor = 0
    /\ horizontalCursor = 0
    /\ b = 0
    /\ renderingRectangles = <<>>
    /\ splitPc = "start"

SplitIdle ==
    /\ contentSplit = ParseContentSplit(<<>>)
    /\ contentSplitDirection = "vertical"
    /\ slideInfoSequence = <<>>
    /\ contentTop = 0
    /\ contentLeft = 0
    /\ contentHeight = 0
    /\ contentWidth = 0
    /\ blocksToRender = 0
    /\ allContentSplit = 0
    /\ verticalCursor = 0
    /\ horizontalCursor = 0
    /\ b = 0
    /\ renderingRectangles = <<>>
    /\ splitPc = "idle"

RECURSIVE SumFirst(_, _)
SumFirst(cs, n) == IF n = 0 THEN 0 ELSE SumFirst(cs, n - 1) + cs[n]

\* lines 1930-1947: how many blocks to render, the sum of their weights
SplitPrepare ==
    /\ splitPc = "start"
    /\ blocksToRender' = Min(maxBlocks, Len(slideInfoSequence))
    /\ allContentSplit' = SumFirst(contentSplit, Min(maxBlocks, Len(slideInfoSequence)))
    /\ verticalCursor' = contentTop
    /\ horizontalCursor' = contentLeft
    /\ b' = 0
    /\ splitPc' = "blocks"
    /\ UNCHANGED <<contentSplit, contentSplitDirection, slideInfoSequence,
                   contentTop, contentLeft, contentHeight, contentWidth,
                   renderingRectangles>>
    /\ UNCHANGED notSplit

\* mutant: the split directions are exchanged
BlockRectangleSwapped(dirn, weight) ==
    IF dirn # "vertical"
    THEN Rectangle(verticalCursor, contentLeft,
                   Trunc(contentHeight * weight, allContentSplit), contentWidth)
    ELSE Rectangle(contentTop, horizontalCursor,
                   contentHeight, Trunc(contentWidth * weight, allContentSplit))

\* lines 1950-1969: the rendering rectangle of block b
BlockRectangle(dirn, weight) ==
    IF dirn = "vertical"
    THEN Rectangle(verticalCursor, contentLeft,
                   Trunc(contentHeight * weight, allContentSplit), contentWidth)
    ELSE Rectangle(contentTop, horizontalCursor,
                   contentHeight, Trunc(contentWidth * weight, allContentSplit))

\* one iteration of "for b in range(blocksToRender)"; b counts from 0
SplitBlock ==
    /\ splitPc = "blocks"
    /\ b < blocksToRender
    /\ allContentSplit # 0
    /\ LET r == BlockRectangle(contentSplitDirection, contentSplit[b + 1])
       IN  /\ renderingRectangles' = Append(renderingRectangles, r)
           /\ IF contentSplitDirection = "vertical"
              THEN /\ verticalCursor' = verticalCursor + r.height
                   /\ UNCHANGED horizontalCursor
              ELSE /\ horizontalCursor' = horizontalCursor + r.width
                   /\ UNCHANGED verticalCursor
    /\ b' = b + 1
    /\ UNCHANGED <<contentSplit, contentSplitDirection, slideInfoSequence,
                   contentTop, contentLeft, contentHeight, contentWidth,
                   blocksToRender, allContentSplit, splitPc>>
    /\ UNCHANGED notSplit

\* the division by allContentSplit raises ZeroDivisionError
SplitDivideByZero ==
    /\ splitPc = "blocks"
    /\ b < blocksToRender
    /\ allContentSplit = 0
    /\ splitPc' = "ZeroDivisionError"
    /\ UNCHANGED <<contentSplit, contentSplitDirection, slideInfoSequence,
                   contentTop, contentLeft, contentHeight, contentWidth,
                   blocksToRender, allContentSplit, verticalCursor,
                   horizontalCursor, b, renderingRectangles>>
    /\ UNCHANGED notSplit

SplitReturn ==
    /\ splitPc = "blocks"
    /\ b = blocksToRender
    /\ splitPc' = "done"
    /\ UNCHANGED <<contentSplit, contentSplitDirection, slideInfoSequence,
                   contentTop, contentLeft, contentHeight, contentWidth,
                   blocksToRender, allContentSplit, verticalCursor,
                   horizontalCursor, b, renderingRectangles>>
    /\ UNCHANGED notSplit

SplitNext == SplitPrepare \/ SplitBlock \/ SplitDivideByZero \/ SplitReturn

\* ========================================================================
\* createTOCSlide, chevron and circle styles
\* ========================================================================
RECURSIVE SeqsUpTo(_, _)
SeqsUpTo(S, n) ==
    IF n = 0 THEN {<<>>}
    ELSE LET shorter == SeqsUpTo(S, n - 1)
         IN  shorter \cup {Append(q, e) : q \in {r \in shorter : Len(r) = n - 1}, e \in S}

\* a bullet is [level, text, type]; the text is the bullet's position
TOCBulletLists ==
    {[i \in 1..Len(levels) |-> <<levels[i], i, "bulleted">>] :
        levels \in SeqsUpTo({0, 1}, MaxTOCBullets)}

TOCInit ==
    /\ tocStyle \in {"chevron", "circle"}
    /\ TOCItemHeight \in {0, 1, 5}
    /\ TOCRowGap \in {0, 1}
    /\ marginBase = 10
    /\ slide_width \in {90, 250, 350}
    /\ slideTitleBottom = 40
    /\ tocContentHeight = 400
    /\ tocBullets \in TOCBulletLists
    /\ TOCEntries = <<>>
    /\ height = 0 /\ width = FracInt(0) /\ entryGap = 0 /\ rowGap = 0
    /\ TOCEntriesPerRow = 0
    /\ rowCount = FracInt(0)
    /\ TOCtop = FracInt(0) /\ TOCleft = FracInt(0)
    /\ x = FracInt(0) /\ y = FracInt(0)
    /\ AbsoluteTOCEntryNumber = 0 /\ TOCEntryNumber = 0
    /\ tocShapes = <<>>
    /\ tocPc = "start"

TOCIdle ==
    /\ tocStyle = "chevron"
    /\ TOCItemHeight = 0
    /\ TOCRowGap = 0
    /\ marginBase = 0
    /\ slide_width = 0
    /\ slideTitleBottom = 0
    /\ tocContentHeight = 0
    /\ tocBullets = <<>>
    /\ TOCEntries = <<>>
    /\ height = 0 /\ width = FracInt(0) /\ entryGap = 0 /\ rowGap = 0
    /\ TOCEntriesPerRow = 0
    /\ rowCount = FracInt(0)
    /\ TOCtop = FracInt(0) /\ TOCleft = FracInt(0)
    /\ x = FracInt(0) /\ y = FracInt(0)
    /\ AbsoluteTOCEntryNumber = 0 /\ TOCEntryNumber = 0
    /\ tocShapes = <<>>
    /\ tocPc = "idle"

\* lines 3516-3521: a TOC entry for every level-0 bullet
RECURSIVE AppendTOCEntries(_, _)
AppendTOCEntries(entries, tocList) ==
    IF tocList = <<>> THEN entries
    ELSE AppendTOCEntries(
             IF Head(tocList)[1] = 0 THEN Append(entries, Head(tocList)[2])
                                     ELSE entries,
             Tail(tocList))

\* lines 3531-3553: item height, width and gap of the style
StyleHeight(style, itemHeight) ==
    LET h == Inches(itemHeight, 1)
    IN  IF h # 0 THEN h
        ELSE IF style = "chevron" THEN Inches(1, 1) ELSE Inches(5, 4)

StyleWidth(style, h) == IF style = "chevron" THEN Frac(5 * h, 2) ELSE FracInt(h)

\* chevron: Inches(-0.5 * height / Inches(1)); circle: Inches(0.5)
StyleGap(style, h) ==
    IF style = "chevron" THEN Inches(-h, 2 * Inches(1, 1)) ELSE Inches(1, 2)

\* width + entryGap
Pitch(w, gap) == FracAdd(w, FracInt(gap))

\* line 3557: int((slide_width - 2 * marginBase) / (width + entryGap))
EntriesPerRow(available, w, gap) ==
    Trunc(available * Pitch(w, gap)[2], Pitch(w, gap)[1])

\* lines 3516-3559
TOCMeasure ==
    /\ tocPc = "start"
    /\ TOCEntries' = AppendTOCEntries(TOCEntries, tocBullets)
    /\ height' = StyleHeight(tocStyle, TOCItemHeight)
    /\ width' = StyleWidth(tocStyle, height')
    /\ entryGap' = StyleGap(tocStyle, height')
    /\ rowGap' = Inches(TOCRowGap, 1)
    /\ TOCEntriesPerRow' = EntriesPerRow(slide_width - 2 * marginBase, width', entryGap')
    /\ tocPc' = "measured"
    /\ UNCHANGED <<tocInputs, rowCount, TOCtop, TOCleft, x, y,
                   AbsoluteTOCEntryNumber, TOCEntryNumber, tocShapes>>
    /\ UNCHANGED notTOC

\* line 3561: rowCount = 1 + TOCEntryCount / TOCEntriesPerRow
RowCount(entryCount, perRow) == FracAdd(FracInt(1), Frac(entryCount, perRow))

\* lines 3561-3580
TOCPlan ==
    /\ tocPc = "measured"
    /\ TOCEntriesPerRow # 0
    /\ rowCount' = RowCount(Len(TOCEntries), TOCEntriesPerRow)
    /\ LET TOCHeight == FracAdd(FracMul(rowCount', FracInt(height)),
                                FracMul(FracSub(rowCount', FracInt(1)), FracInt(rowGap)))
           TOCWidth == FracMul(FracInt(TOCEntriesPerRow), Pitch(width, entryGap))
       IN  /\ TOCtop' = FracAdd(FracInt(slideTitleBottom),
                            FracHalf(FracAdd(FracSub(FracInt(tocContentHeight), TOCHeight),
                                             FracInt(height))))
           /\ TOCleft' = FracHalf(FracAdd(FracSub(FracInt(slide_width), TOCWidth),
                                         FracInt(entryGap)))
    /\ x' = TOCleft'
    /\ y' = TOCtop'
    /\ AbsoluteTOCEntryNumber' = 1
    /\ TOCEntryNumber' = 1
    /\ tocPc' = "place"
    /\ UNCHANGED <<tocInputs, TOCEntries, height, width, entryGap, rowGap,
                   TOCEntriesPerRow, tocShapes>>
    /\ UNCHANGED notTOC

\* line 3561 with TOCEntriesPerRow = 0 raises ZeroDivisionError
TOCDivideByZero ==
    /\ tocPc = "measured"
    /\ TOCEntriesPerRow = 0
    /\ tocPc' = "ZeroDivisionError"
    /\ UNCHANGED <<tocInputs, TOCEntries, tocGeometry, x, y,
                   AbsoluteTOCEntryNumber, TOCEntryNumber, tocShapes>>
    /\ UNCHANGED notTOC

\* mutant: the row is wrapped one entry early
WrapsAfterOffByOne(entryNumber, perRow) == entryNumber = perRow

\* line 3645: the entry counter after the increment has passed the row's end
WrapsAfter(entryNumber, perRow) == entryNumber = perRow + 1

\* lines 3582-3648: one iteration of "for entry in TOCEntries"
TOCPlaceEntry ==
    /\ tocPc = "place"
    /\ AbsoluteTOCEntryNumber <= Len(TOCEntries)
    /\ tocShapes' = Append(tocShapes,
                           [entry |-> TOCEntries[AbsoluteTOCEntryNumber],
                            x |-> x, y |-> y, width |-> width, height |-> height])
    /\ AbsoluteTOCEntryNumber' = AbsoluteTOCEntryNumber + 1
    /\ IF WrapsAfter(TOCEntryNumber + 1, TOCEntriesPerRow)
       THEN /\ x' = TOCleft
            /\ y' = FracAdd(y, FracInt(rowGap + height))
            /\ TOCEntryNumber' = 1
       ELSE /\ x' = FracAdd(x, Pitch(width, entryGap))
            /\ y' = y
            /\ TOCEntryNumber' = TOCEntryNumber + 1
    /\ UNCHANGED <<tocInputs, TOCEntries, tocGeometry, tocPc>>
    /\ UNCHANGED notTOC

TOCReturn ==
    /\ tocPc = "place"
    /\ AbsoluteTOCEntryNumber > Len(TOCEntries)
    /\ tocPc' = "done"
    /\ UNCHANGED <<tocInputs, TOCEntries, tocGeometry, x, y,
                   AbsoluteTOCEntryNumber, TOCEntryNumber, tocShapes>>
    /\ UNCHANGED notTOC

TOCNext == TOCMeasure \/ TOCPlan \/ TOCDivideByZero \/ TOCPlaceEntry \/ TOCReturn

\* ========================================================================
\* createFootnoteSlides, createGlossarySlides, createTaskSlides
\* ========================================================================
\* footnote definitions [ref, text] in order of appearance
FootnoteInputs == {[i \in 1..n |-> <<i, "text">>] : n \in 1..MaxItems}

\* the keys of abbrevDictionary in insertion order
GlossaryInputs ==
    {q \in SeqsUpTo(1..MaxItems, MaxItems) :
        /\ Len(q) >= 1
        /\ \A i, j \in 1..Len(q) : i # j => q[i] # q[j]}

\* tasks [slide number, task text]
TaskInputs ==
    {[i \in 1..Len(sNums) |-> <<sNums[i], i>>] :
        sNums \in {q \in SeqsUpTo({2, 3}, MaxItems) : Len(q) >= 1}}

PagesInit ==
    /\ pgKind \in {"footnotes", "glossary", "tasks"}
    /\ pgItems \in (CASE pgKind = "footnotes" -> FootnoteInputs
                      [] pgKind = "glossary" -> GlossaryInputs
                      [] pgKind = "tasks" -> TaskInputs)
    /\ perPage \in 1..MaxPerPage
    /\ itemNumber = 0
    /\ pageRows = <<>>
    /\ old_sNum = 0
    /\ pageCounter = 0
    /\ pagesEmitted = <<>>
    /\ pgSlideNumber = 5
    /\ pgPc = "loop"

PagesIdle ==
    /\ pgKind = "none"
    /\ pgItems = <<>>
    /\ perPage = 1
    /\ itemNumber = 0
    /\ pageRows = <<>>
    /\ old_sNum = 0
    /\ pageCounter = 0
    /\ pagesEmitted = <<>>
    /\ pgSlideNumber = 0
    /\ pgPc = "idle"

\* sorted(): ascending order of a sequence of distinct integers
RECURSIVE SortedSet(_)
SortedSet(S) ==
    IF S = {} THEN <<>>
    ELSE LET m == CHOOSE v \in S : \A w \in S : v <= w
         IN  <<m>> \o SortedSet(S \ {m})

Sorted(q) == SortedSet({q[i] : i \in 1..Len(q)})

\* mutant: a page is closed one item late
IsFirstOnPageLate(number, pageSize) == number % pageSize = 1 % pageSize

\* "number % perPage == 0": the item is the first of a page
IsFirstOnPage(number, pageSize) == number % pageSize = 0

\* the page title: numbered when there is more than one page
PageTitle(stem, count, pageSize, counter) ==
    IF count > pageSize THEN <<stem, counter>> ELSE <<stem, 0>>

\* one iteration of "for footnoteNumber, footnote in enumerate(...)"
FootnoteLoop ==
    /\ pgKind = "footnotes"
    /\ pgPc = "loop"
    /\ itemNumber < Len(pgItems)
    /\ LET closing == IsFirstOnPage(itemNumber, perPage) /\ itemNumber > 0
           pageBullets == IF IsFirstOnPage(itemNumber, perPage) THEN <<>> ELSE pageRows
       IN  /\ IF closing
              THEN /\ pageCounter' = pageCounter + 1
                   /\ pagesEmitted' = Append(pagesEmitted,
                          [title |-> PageTitle("Footnotes", Len(pgItems), perPage,
                                               pageCounter + 1),
                           blockType |-> "content", sequence |-> <<"list">>,
                           slideNumber |-> pgSlideNumber, rows |-> pageRows])
                   \* createSlide adds one, "slideNumber += 1" another
                   /\ pgSlideNumber' = pgSlideNumber + 1 + 1
              ELSE UNCHANGED <<pageCounter, pagesEmitted, pgSlideNumber>>
           /\ pageRows' = Append(pageBullets, <<1, itemNumber + 1, pgItems[itemNumber + 1][2]>>)
    /\ itemNumber' = itemNumber + 1
    /\ UNCHANGED <<pgKind, pgItems, perPage, old_sNum, pgPc>>
    /\ UNCHANGED notPages

\* lines 4128-4147: the final footnotes slide
FootnoteFinal ==
    /\ pgKind = "footnotes"
    /\ pgPc = "loop"
    /\ itemNumber = Len(pgItems)
    /\ pageCounter' = pageCounter + 1
    /\ pagesEmitted' = Append(pagesEmitted,
           [title |-> PageTitle("Footnotes", Len(pgItems), perPage, pageCounter + 1),
            blockType |-> "content", sequence |-> <<"list">>,
            slideNumber |-> pgSlideNumber, rows |-> pageRows])
    /\ pgSlideNumber' = pgSlideNumber + 1 + 1
    /\ pgPc' = "done"
    /\ UNCHANGED <<pgKind, pgItems, perPage, itemNumber, pageRows, old_sNum>>
    /\ UNCHANGED notPages

GlossaryHeader == <<<<"glossaryTerm", "glossaryMeaning">>, <<":-", ":-">>>>

\* one iteration of "for termNumber, term in enumerate(sorted(...))"
GlossaryLoop ==
    /\ pgKind = "glossary"
    /\ pgPc = "loop"
    /\ itemNumber < Len(pgItems)
    /\ LET closing == IsFirstOnPage(itemNumber, perPage) /\ itemNumber > 0
           glossaryRows == IF IsFirstOnPage(itemNumber, perPage)
                           THEN GlossaryHeader ELSE pageRows
           term == Sorted(pgItems)[itemNumber + 1]
       IN  /\ IF closing
              THEN /\ pageCounter' = pageCounter + 1
                   /\ pagesEmitted' = Append(pagesEmitted,
                          [title |-> PageTitle("Glossary", Len(pgItems), perPage,
                                               pageCounter + 1),
                           blockType |-> "table", sequence |-> <<"table">>,
                           slideNumber |-> pgSlideNumber, rows |-> pageRows])
                   /\ pgSlideNumber' = pgSlideNumber + 1
              ELSE UNCHANGED <<pageCounter, pagesEmitted, pgSlideNumber>>
           /\ pageRows' = Append(glossaryRows, <<term, "meaning">>)
    /\ itemNumber' = itemNumber + 1
    /\ UNCHANGED <<pgKind, pgItems, perPage, old_sNum, pgPc>>
    /\ UNCHANGED notPages

\* lines 4049-4064: the final glossary slide
GlossaryFinal ==
    /\ pgKind = "glossary"
    /\ pgPc = "loop"
    /\ itemNumber = Len(pgItems)
    /\ pageCounter' = pageCounter + 1
    /\ pagesEmitted' = Append(pagesEmitted,
           [title |-> PageTitle("Glossary", Len(pgItems), perPage, pageCounter + 1),
            blockType |-> "table", sequence |-> <<"table">>,
            slideNumber |-> pgSlideNumber, rows |-> pageRows])
    /\ pgSlideNumber' = pgSlideNumber + 1
    /\ pgPc' = "done"
    /\ UNCHANGED <<pgKind, pgItems, perPage, itemNumber, pageRows, old_sNum>>
    /\ UNCHANGED notPages

TaskHeader == <<<<"Slide", "Task">>, <<"-:", ":----">>>>

\* one iteration of "for taskNumber, task in enumerate(tasks)"
TaskLoop ==
    /\ pgKind = "tasks"
    /\ pgPc = "loop"
    /\ itemNumber < Len(pgItems)
    /\ LET first == IsFirstOnPage(itemNumber, perPage)
           closing == first /\ itemNumber > 0
           taskRows == IF first THEN TaskHeader ELSE pageRows
           old == IF first THEN 0 ELSE old_sNum
           sNum == pgItems[itemNumber + 1][1]
           taskText == pgItems[itemNumber + 1][2]
       IN  /\ IF closing
              THEN /\ pageCounter' = pageCounter + 1
                   /\ pagesEmitted' = Append(pagesEmitted,
                          [title |-> PageTitle("Tasks", Len(pgItems), perPage,
                                               pageCounter + 1),
                           blockType |-> "table", sequence |-> <<"table">>,
                           slideNumber |-> pgSlideNumber, rows |-> pageRows])
                   /\ pgSlideNumber' = pgSlideNumber + 1
              ELSE UNCHANGED <<pageCounter, pagesEmitted, pgSlideNumber>>
           /\ pageRows' = Append(taskRows,
                                 <<IF sNum # old THEN sNum ELSE 0, taskText>>)
           /\ old_sNum' = sNum
    /\ itemNumber' = itemNumber + 1
    /\ UNCHANGED <<pgKind, pgItems, perPage, pgPc>>
    /\ UNCHANGED notPages

\* lines 3981-4004: the final tasks slide
TaskFinal ==
    /\ pgKind = "tasks"
    /\ pgPc = "loop"
    /\ itemNumber = Len(pgItems)
    /\ pageCounter' = pageCounter + 1
    /\ pagesEmitted' = Append(pagesEmitted,
           [title |-> PageTitle("Tasks", Len(pgItems), perPage, pageCounter + 1),
            blockType |-> "table", sequence |-> <<"table">>,
            slideNumber |-> pgSlideNumber, rows |-> pageRows])
    /\ pgSlideNumber' = pgSlideNumber + 1
    /\ pgPc' = "done"
    /\ UNCHANGED <<pgKind, pgItems, perPage, itemNumber, pageRows, old_sNum>>
    /\ UNCHANGED notPages

PagesNext ==
    \/ FootnoteLoop \/ FootnoteFinal
    \/ GlossaryLoop \/ GlossaryFinal
    \/ TaskLoop \/ TaskFinal

\* ========================================================================
\* createTableBlock, ruled table: the alignment and relative-width row
\* ========================================================================
\* A cell is the sequence of its characters; "x" stands for any character
\* other than ":" and "-".
CellChars == {":", "-", "x"}

Cells == SeqsUpTo(CellChars, MaxCellLen)

TextCell == <<"x">>

\* tableRows of a table block without media: a row of text cells, then
\* possibly a second row of any cells and a third row of text cells
TableInputs ==
    {<<[c \in 1..n |-> TextCell]>> : n \in 1..(MaxCols + 1)}
    \cup {<<[c \in 1..n |-> TextCell], second>> :
             n \in 1..(MaxCols + 1), second \in SeqsUpTo(Cells, MaxCols)}
    \cup {<<[c \in 1..n |-> TextCell], second, [c \in 1..m |-> TextCell]>> :
             n \in 1..(MaxCols + 1), second \in SeqsUpTo(Cells, MaxCols),
             m \in {1, MaxCols + 1}}

TableInit ==
    /\ tableGrid \in TableInputs
    /\ inputGrid = tableGrid
    /\ columns = 0
    /\ haveTableHeading = FALSE
    /\ alignments = <<>>
    /\ widths = <<>>
    /\ widths_total = 0
    /\ rows = 0
    /\ tblPc = "start"

TableIdle ==
    /\ tableGrid = <<>>
    /\ inputGrid = <<>>
    /\ columns = 0
    /\ haveTableHeading = FALSE
    /\ alignments = <<>>
    /\ widths = <<>>
    /\ widths_total = 0
    /\ rows = 0
    /\ tblPc = "idle"

\* str.startswith, str.endswith, str.count
StartsWith(cell, prefix) ==
    Len(cell) >= Len(prefix) /\ SubSeq(cell, 1, Len(prefix)) = prefix

EndsWith(cell, suffix) ==
    Len(cell) >= Len(suffix)
    /\ SubSeq(cell, Len(cell) - Len(suffix) + 1, Len(cell)) = suffix

CountChar(cell, ch) == Cardinality({i \in 1..Len(cell) : cell[i] = ch})

RECURSIVE MaxRowLen(_)
MaxRowLen(grid) ==
    IF grid = <<>> THEN 0 ELSE Max(Len(Head(grid)), MaxRowLen(Tail(grid)))

RECURSIVE SumSeq(_)
SumSeq(q) == IF q = <<>> THEN 0 ELSE Head(q) + SumSeq(Tail(q))

\* lines 3157-3159: the test on the first cell of the second row
IsDashLine(firstCellSecondRow) ==
    StartsWith(firstCellSecondRow, <<"-">>) \/ StartsWith(firstCellSecondRow, <<":", "-">>)

\* lines 3146-3164
TableMeasure ==
    /\ tblPc = "start"
    /\ columns' = MaxRowLen(tableGrid)
    /\ IF Len(tableGrid) > 1
       THEN IF tableGrid[2] = <<>>
            THEN /\ tblPc' = "IndexError"
                 /\ UNCHANGED haveTableHeading
            ELSE /\ haveTableHeading' = IsDashLine(tableGrid[2][1])
                 /\ tblPc' = "measured"
       ELSE /\ haveTableHeading' = FALSE
            /\ tblPc' = "measured"
    /\ UNCHANGED <<tableGrid, inputGrid, alignments, widths, widths_total, rows>>
    /\ UNCHANGED notTable

\* mutant: a leading colon alone centres the column
CellAlignmentColonCentres(cell) ==
    IF StartsWith(cell, <<":", "-">>) THEN "c"
    ELSE IF EndsWith(cell, <<"-", ":">>) THEN "r" ELSE "l"

\* lines 3172-3180
CellAlignment(cell) ==
    IF StartsWith(cell, <<":", "-">>)
    THEN IF EndsWith(cell, <<"-", ":">>) THEN "c" ELSE "l"
    ELSE IF EndsWith(cell, <<"-", ":">>) THEN "r" ELSE "l"

\* lines 3166-3193 and 3207
TableHeading ==
    /\ tblPc = "measured"
    /\ haveTableHeading
    /\ LET second == tableGrid[2]
           missing == Max(0, columns - Len(second))
       IN  /\ alignments' = [c \in 1..Len(second) |-> CellAlignment(second[c])]
                                \o [c \in 1..missing |-> "l"]
           /\ widths' = [c \in 1..Len(second) |-> CountChar(second[c], "-")]
                            \o [c \in 1..missing |-> 1]
    /\ widths_total' = SumSeq(widths')
    /\ tableGrid' = <<tableGrid[1]>> \o SubSeq(tableGrid, 3, Len(tableGrid))
    /\ rows' = Len(tableGrid')
    /\ tblPc' = "aligned"
    /\ UNCHANGED <<inputGrid, columns, haveTableHeading>>
    /\ UNCHANGED notTable

\* lines 3194-3207
TableNoHeading ==
    /\ tblPc = "measured"
    /\ ~ haveTableHeading
    /\ alignments' = [c \in 1..columns |-> "l"]
    /\ widths' = [c \in 1..columns |-> 1]
    /\ widths_total' = columns
    /\ rows' = Len(tableGrid)
    /\ tblPc' = "aligned"
    /\ UNCHANGED <<tableGrid, inputGrid, columns, haveTableHeading>>
    /\ UNCHANGED notTable

\* ------------------------------------------------------------------------
\* createTableBlock, ruled table: the shape of the table and the widths of
\* its columns (lines 3209-3240)
\* ------------------------------------------------------------------------
NoShape == [top |-> 0, left |-> 0, height |-> 0, width |-> 0]

ShapeInit ==
    /\ tblRectangle = NoShape
    /\ tblMargin = 0
    /\ tblMarginBase = 0
    /\ newTableShape = NoShape
    /\ colWidths = <<>>
    /\ shapePc = "start"

ShapeIdle ==
    /\ tblRectangle = NoShape
    /\ tblMargin = 0
    /\ tblMarginBase = 0
    /\ newTableShape = NoShape
    /\ colWidths = <<>>
    /\ shapePc = "idle"

\* the rendering rectangles of a table block
TableRectangles ==
    [top : {20}, left : {10}, height : {4, 12}, width : {100, 101}]

\* line 3240
ColumnWidth(shapeWidth, weights, total, colno) ==
    Trunc(shapeWidth * weights[colno], total)

\* lines 3209-3240: add_table, the shape's rectangle, the column widths
TableShape ==
    /\ tblPc = "aligned"
    /\ shapePc = "start"
    /\ \E rect \in TableRectangles, margin \in {10, 14} :
           LET shapeWidth == rect.width - 2 * (margin - 10)
           IN  /\ tblRectangle' = rect
               /\ tblMargin' = margin
               /\ tblMarginBase' = 10
               /\ newTableShape' =
                      [top |-> rect.top,
                       left |-> rect.left + margin - 10,
                       height |-> Min(rect.height, Inches(1, 4) * rows),
                       width |-> shapeWidth]
               /\ colWidths' =
                      [colno \in 1..columns |->
                           ColumnWidth(shapeWidth, widths, widths_total, colno)]
    /\ shapePc' = "shaped"
    /\ UNCHANGED notShape

TableNext == TableMeasure \/ TableHeading \/ TableNoHeading \/ TableShape

\* ========================================================================
\* cli(), pass 5: the main pass over the lines left by passes 1-4
\* ========================================================================
\* A line is known by what the pass tests of its text: its kind, the number
\* of leading "#" (headings) or the indentation level (bullets), and
\* the [reference] a heading ends in or an anchor names.  A quoted text
\* is <<>> for "", <<n>> for the text of line n, <<name>> for a reference.
Line(kind, level, ref) == [kind |-> kind, level |-> level, ref |-> ref]

\* heading levels for topHeadingLevel 1 (lines 4463-4466)
titleLevel == 1

sectionLevel == titleLevel + 1

contentLevel == sectionLevel + 1

cardLevel == contentLevel + 1

\* the state of the pass as one record
State ==
    [inBlock |-> inBlock, inList |-> inList, inTable |-> inTable,
     inCard |-> inCard, inTitle |-> inTitle, inCode |-> inCode,
     inHTMLCode |-> inHTMLCode, inFencedCode |-> inFencedCode,
     blockType |-> blockType, slideTitle |-> slideTitle,
     slideSubtitle |-> slideSubtitle, bullets |-> bullets,
     tableRows |-> tableRows, cards |-> cards, cardBullets |-> cardBullets,
     code |-> code, sequence |-> sequence, notes_text |-> notes_text,
     slide |-> slide, tasks |-> tasks, slideNumber |-> slideNumber,
     href |-> href, hrefBound |-> hrefBound, slideHrefs |-> slideHrefs,
     lastTableLine |-> lastTableLine, tableCaptions |-> tableCaptions,
     tableCaption |-> tableCaption, tableCaptionBound |-> tableCaptionBound,
     slides |-> slides, raised |-> raised]

Becomes(s) ==
    /\ inBlock' = s.inBlock /\ inList' = s.inList /\ inTable' = s.inTable
    /\ inCard' = s.inCard /\ inTitle' = s.inTitle /\ inCode' = s.inCode
    /\ inHTMLCode' = s.inHTMLCode /\ inFencedCode' = s.inFencedCode
    /\ blockType' = s.blockType /\ slideTitle' = s.slideTitle
    /\ slideSubtitle' = s.slideSubtitle /\ bullets' = s.bullets
    /\ tableRows' = s.tableRows /\ cards' = s.cards
    /\ cardBullets' = s.cardBullets /\ code' = s.code
    /\ sequence' = s.sequence /\ notes_text' = s.notes_text
    /\ slide' = s.slide /\ tasks' = s.tasks /\ slideNumber' = s.slideNumber
    /\ href' = s.href /\ hrefBound' = s.hrefBound /\ slideHrefs' = s.slideHrefs
    /\ lastTableLine' = s.lastTableLine /\ tableCaptions' = s.tableCaptions
    /\ tableCaption' = s.tableCaption
    /\ tableCaptionBound' = s.tableCaptionBound
    /\ slides' = s.slides /\ raised' = s.raised

\* list[-1].append(e)
AppendToLast(lists, e) ==
    [lists EXCEPT ![Len(lists)] = Append(@, e)]

\* dict[key] = value
SetItem(dict, key, value) ==
    [k \in DOMAIN dict \cup {key} |-> IF k = key THEN value ELSE dict[k]]

\* a statement that is not reached once an exception has been raised
Then(s, next) == IF s.raised # "" THEN s ELSE next

\* lines 5297-5302
OpenHTMLCode(s, line) ==
    IF line.kind = "pre"
    THEN [s EXCEPT !.code = Append(@, <<>>), !.inCode = TRUE,
                   !.inHTMLCode = TRUE, !.inTable = FALSE, !.inTitle = FALSE]
    ELSE s

\* lines 5304-5307
CloseHTMLCode(s, line) ==
    IF line.kind = "endpre"
    THEN [s EXCEPT !.inCode = FALSE, !.inHTMLCode = FALSE, !.inTitle = FALSE]
    ELSE s

\* lines 5309-5320
ToggleFence(s, line, n) ==
    IF line.kind # "fence" THEN s
    ELSE IF ~ s.inCode
    THEN [s EXCEPT !.inCode = TRUE, !.code = Append(@, <<>>),
                   !.blockType = "code", !.inTable = FALSE,
                   !.inFencedCode = ~ @, !.inTitle = FALSE]
    ELSE IF s.code = <<>>
    THEN [s EXCEPT !.inCode = FALSE, !.raised = "IndexError"]
    ELSE [s EXCEPT !.inCode = FALSE, !.code = AppendToLast(@, n),
                   !.inFencedCode = ~ @, !.inTitle = FALSE]


\* lines 5322-5331
CollectCodeLine(s, n) ==
    IF s.inCode \/ s.inHTMLCode \/ s.inFencedCode
    THEN LET started == IF s.code = <<>> THEN <<<<>>>> ELSE s.code
             collected == AppendToLast(started, n)
         IN  [s EXCEPT !.code = collected,
                       !.sequence = IF Len(collected[Len(collected)]) = 1
                                    THEN Append(@, "code") ELSE @,
                       !.inTitle = FALSE]
    ELSE s

\* lines 5332-5339
BlankEndsCode(s, line) ==
    IF line.kind = "blank" /\ s.inCode /\ ~ s.inHTMLCode /\ ~ s.inFencedCode
    THEN [s EXCEPT !.inCode = FALSE, !.inTitle = FALSE]
    ELSE s

\* line.startswith("    ")
IsIndented(line) == line.kind \in {"indented", "indentedBullet"}

\* lines 5341-5348
IndentedCode(s, line, n) ==
    IF IsIndented(line) /\ ~ s.inList
    THEN IF ~ s.inCode
         THEN [s EXCEPT !.code = Append(@, <<n>>), !.blockType = "code",
                        !.inCode = TRUE, !.inTitle = FALSE]
         ELSE [s EXCEPT !.inTitle = FALSE]
    ELSE s

\* lines 5351-5353: a horizontal rule becomes the heading "### &nbsp;"
RewriteRule(line) ==
    IF line.kind = "hr" THEN Line("heading", 3, <<>>) ELSE line

RuleSetsTitle(s, line) ==
    IF line.kind = "hr" THEN [s EXCEPT !.inTitle = TRUE] ELSE s

\* SlideInfo(...) at lines 5819-5828 and 6106-6108 (class SlideInfo, lines
\* 113-129), with the number the slide is created under
SlideInfo(s) ==
    [titleText |-> s.slideTitle, subtitleText |-> s.slideSubtitle,
     blockType |-> s.blockType, bullets |-> s.bullets,
     tableRows |-> s.tableRows, cards |-> s.cards, code |-> s.code,
     sequence |-> s.sequence, number |-> s.slideNumber, notes |-> <<>>]

\* createContentSlide, lines 1886-1894: the layout the slide is added with
SlideLayout(info) ==
    IF info.bullets = <<>> /\ info.cards = <<>>
    THEN "titleOnlyLayout"
    ELSE "contentSlideLayout"

\* createContentSlide, line 1932: the rendering rectangles made
BlocksToRender(info) == Min(maxBlocks, Len(info.sequence))

\* the number of tags `tag` among the first `upTo` tags of a sequence
CountTag(tags, tag, upTo) ==
    Cardinality({i \in 1..upTo : tags[i] = tag})

\* createContentSlide, lines 1896-1898 and 1971-1979: block b indexes
\* tableRows[tableBlockNumber] or code[codeBlockNumber]
ContentSlideRaises(info) ==
    \E i \in 1..Min(maxBlocks, Len(info.sequence)) :
        \/ /\ info.sequence[i] = "table"
           /\ CountTag(info.sequence, "table", i) > Len(info.tableRows)
        \/ /\ info.sequence[i] = "code"
           /\ CountTag(info.sequence, "code", i) > Len(info.code)

\* createSlide, lines 3656-3828: the exception it ends with, "" for none
CreateSlideRaises(info) ==
    IF info.blockType \in {"content", "code", "table"}
    THEN IF ContentSlideRaises(info) THEN "IndexError" ELSE ""
    ELSE IF info.blockType \in {"section", "title"} THEN ""
    ELSE "UnboundLocalError"

\* slideNumber, slide, sequence = createSlide(prs, slideNumber, slideInfo)
CreateSlide(s) ==
    LET info == SlideInfo(s)
        exception == CreateSlideRaises(info)
    IN  IF exception # ""
        THEN [s EXCEPT !.slides = Append(@, info), !.raised = exception]
        ELSE [s EXCEPT !.slides = Append(@, info),
                       !.slideNumber = @ + 1,
                       !.slide = Len(s.slides) + 1,
                       !.sequence = <<>>]

\* createSlideNotes, lines 4067-4082; a blank line of notes is -1
CreateSlideNotes(s) ==
    IF s.notes_text # <<>> /\ s.slide # 0
    THEN IF s.slides[s.slide].notes # <<>> THEN s
         ELSE [s EXCEPT !.slides[s.slide].notes =
                            SelectSeq(s.notes_text, LAMBDA t : t # -1)]
    ELSE s

\* if href != "": slideHrefs[href] = number
RegisterHref(s, number) ==
    IF ~ s.hrefBound THEN [s EXCEPT !.raised = "UnboundLocalError"]
    ELSE IF s.href # <<>>
    THEN [s EXCEPT !.slideHrefs = SetItem(@, s.href[1], number)]
    ELSE s

\* parseTitleText, lines 1106-1119: the reference, "" when there is none
TitleHref(line) == line.ref

\* lines 5356-5397
TaskLine(s, n) ==
    [s EXCEPT !.tasks = Append(@, <<s.slideNumber + 1, n>>),
              !.inTitle = FALSE]

\* lines 5399-5405
AnchorLine(s, line) ==
    [s EXCEPT !.href = line.ref, !.hrefBound = TRUE, !.inTitle = FALSE]

\* lines 5407-5409 (the options the directive sets are not part of this
\* state)
DirectiveLine(s) == [s EXCEPT !.inTitle = FALSE]

\* lines 5788-5812
CardHeading(s, line, n) ==
    LET registered == RegisterHref(s, s.slideNumber + 1)
    IN  Then(registered,
             [registered EXCEPT
                 !.inCard = TRUE,
                 !.href = TitleHref(line),
                 !.cardBullets = <<>>,
                 !.cards = Append(@, [title |-> n, bullets |-> <<>>,
                                      graphic |-> <<>>]),
                 !.inTitle = FALSE])

\* lines 5835-5870
StartSlide(s, line, n) ==
    LET typed ==
            IF line.level >= contentLevel
            THEN [s EXCEPT !.blockType = "content"]
            ELSE IF line.level >= sectionLevel
            THEN [s EXCEPT !.blockType = "section", !.inTitle = TRUE]
            ELSE [s EXCEPT !.blockType = "title", !.inTitle = TRUE]
        reset ==
            [typed EXCEPT !.slideTitle = <<n>>, !.href = TitleHref(line),
                          !.hrefBound = TRUE, !.inBlock = TRUE,
                          !.inList = FALSE, !.inTable = FALSE,
                          !.inCard = FALSE, !.slideSubtitle = <<>>,
                          !.bullets = <<>>, !.tableRows = <<>>,
                          !.cards = <<>>, !.code = <<>>]
    IN  [CreateSlideNotes(reset) EXCEPT !.notes_text = <<>>]

\* mutant: the heading emits a slide even when none is open
EmitPreviousAlways(s) ==
    LET created == CreateSlide(s)
    IN  Then(created, RegisterHref(created, created.slideNumber))

\* lines 5817-5833
EmitPrevious(s) ==
    IF s.inBlock
    THEN LET created == CreateSlide(s)
         IN  Then(created, RegisterHref(created, created.slideNumber))
    ELSE s

\* lines 5815-5870
SlideHeading(s, line, n) ==
    LET emitted == EmitPrevious(s)
    IN  Then(emitted, StartSlide(emitted, line, n))

\* lines 5786-5874
HeadingLine(s, line, n) ==
    IF line.level >= cardLevel
    THEN CardHeading(s, line, n)
    ELSE SlideHeading(s, line, n)

\* mutant: a card's bullet is also put on the slide
ListLineAlsoOnSlide(s, line, n, bulletType) ==
    LET bullet == <<line.level, n, bulletType>>
        placed ==
            IF s.inCard
            THEN LET grown == Append(s.cardBullets, bullet)
                 IN  [s EXCEPT !.cardBullets = grown,
                               !.bullets = Append(@, bullet),
                               !.cards[Len(s.cards)].bullets = grown]
            ELSE [s EXCEPT !.bullets = Append(@, bullet)]
    IN  [placed EXCEPT
            !.sequence = IF ~ s.inList THEN Append(@, "list") ELSE @,
            !.inList = TRUE, !.inTable = FALSE, !.inTitle = FALSE]

\* lines 5876-5901 ("bulleted") and 5903-5928 ("numbered")
ListLine(s, line, n, bulletType) ==
    LET bullet == <<line.level, n, bulletType>>
        placed ==
            IF s.inCard
            THEN LET grown == Append(s.cardBullets, bullet)
                 IN  [s EXCEPT !.cardBullets = grown,
                               !.cards[Len(s.cards)].bullets = grown]
            ELSE [s EXCEPT !.bullets = Append(@, bullet)]
    IN  [placed EXCEPT
            !.sequence = IF ~ s.inList THEN Append(@, "list") ELSE @,
            !.inList = TRUE, !.inTable = FALSE, !.inTitle = FALSE]

\* lines 5932-6041
MediaLine(s, n) ==
    IF s.inCard
    THEN [s EXCEPT !.cards[Len(s.cards)].graphic = <<n>>]
    ELSE LET opened ==
                 IF ~ s.inTable
                 THEN [s EXCEPT !.blockType = "table",
                                !.sequence = Append(@, "table"),
                                !.inTable = TRUE, !.inList = FALSE,
                                !.inCard = FALSE]
                 ELSE s
             grids == IF opened.tableRows = <<>> THEN <<<<>>>>
                      ELSE opened.tableRows
         IN  [opened EXCEPT !.tableRows = AppendToLast(grids, n),
                            !.inTitle = FALSE]

\* lines 6043-6073
TableLine(s, n) ==
    LET captioned == [s EXCEPT !.lastTableLine = n, !.tableCaption = <<>>,
                               !.tableCaptionBound = TRUE]
        opened ==
            IF ~ s.inTable
            THEN [captioned EXCEPT !.blockType = "table",
                                   !.tableRows = Append(@, <<>>),
                                   !.inTable = TRUE,
                                   !.sequence = Append(@, "table"),
                                   !.inList = FALSE, !.inCard = FALSE]
            ELSE captioned
    IN  [opened EXCEPT !.tableRows = AppendToLast(@, n), !.inTitle = FALSE]

\* lines 6075-6079
CaptionLine(s, n) ==
    [s EXCEPT !.tableCaption = <<n>>, !.tableCaptionBound = TRUE,
              !.tableCaptions = Append(@, <<n>>)]

\* lines 6080-6094
OtherLine(s, line, n) ==
    LET left == [s EXCEPT
                    !.inTable = FALSE,
                    !.tableCaptions =
                        IF Len(@) < Len(s.tableRows) THEN Append(@, <<>>)
                        ELSE @]
    IN  IF left.inCode THEN left
        ELSE LET titled == IF line.kind = "blank"
                           THEN [left EXCEPT !.inTitle = FALSE] ELSE left
             IN  IF titled.inTitle
                 THEN [titled EXCEPT !.slideSubtitle = Append(@, n)]
                 ELSE IF line.kind # "endpre"
                 THEN [titled EXCEPT
                          !.notes_text =
                              Append(@, IF line.kind = "blank" THEN -1 ELSE n)]
                 ELSE titled

\* bulletRegex.match(line)
IsBullet(line) == line.kind \in {"bullet", "indentedBullet"}

\* the if/elif chain of lines 5356-6094
Dispatch(s, line, n) ==
    IF line.kind = "task" THEN TaskLine(s, n)
    ELSE IF line.kind = "anchor" THEN AnchorLine(s, line)
    ELSE IF line.kind = "directive" THEN DirectiveLine(s)
    ELSE IF line.kind = "heading" /\ ~ s.inCode THEN HeadingLine(s, line, n)
    ELSE IF IsBullet(line) THEN ListLine(s, line, n, "bulleted")
    ELSE IF line.kind = "number" THEN ListLine(s, line, n, "numbered")
    ELSE IF line.kind = "media" THEN MediaLine(s, n)
    ELSE IF line.kind = "row" THEN TableLine(s, n)
    ELSE IF line.kind = "caption" /\ n = s.lastTableLine + 1
    THEN CaptionLine(s, n)
    ELSE OtherLine(s, line, n)

\* the body of the loop, lines 5286-6094, for line n
LoopBody(s, line, n) ==
    LET s1 == OpenHTMLCode(s, line)
        s2 == CloseHTMLCode(s1, line)
        s3 == ToggleFence(s2, line, n)
        s4 == Then(s3, CollectCodeLine(s3, n))
        s5 == Then(s4, BlankEndsCode(s4, line))
        s6 == Then(s5, IndentedCode(s5, line, n))
        s7 == Then(s6, RuleSetsTitle(s6, line))
    IN  IF line.kind = "ignoreme" THEN s
        ELSE Then(s7, Dispatch(s7, RewriteRule(line), n))

\* lines 6096-6117
FinishLastSlide(s) ==
    LET captioned ==
            IF Len(s.tableCaptions) < Len(s.tableRows)
            THEN IF ~ s.tableCaptionBound
                 THEN [s EXCEPT !.raised = "UnboundLocalError"]
                 ELSE [s EXCEPT !.tableCaptions = Append(@, s.tableCaption)]
            ELSE s
        created == Then(captioned, CreateSlide(captioned))
        registered == Then(created, RegisterHref(created, created.slideNumber))
        noted == Then(registered,
                      [CreateSlideNotes(registered) EXCEPT !.notes_text = <<>>])
    IN  IF captioned.raised = "" /\ (s.inBlock \/ s.inCode \/ s.inTable)
        THEN noted
        ELSE captioned

\* pass 2, lines 5191-5204: what a line does to the flags that pass 2
\* shares with pass 5
Pass2Flags(flags, line) ==
    IF line.kind = "pre" THEN [flags EXCEPT !.inHTMLCode = TRUE]
    ELSE IF line.kind = "endpre" THEN [flags EXCEPT !.inHTMLCode = FALSE]
    ELSE IF line.kind = "fence" THEN [flags EXCEPT !.inCode = ~ @]
    ELSE flags

\* lines 4214, 5161-5182, 5281-5282: the state pass 5 starts in.  inCode
\* and inHTMLCode are set to False at lines 5174-5175 but pass 2 runs in
\* between and leaves them as its last line left them: pass5Start is that
\* value, and pass2 follows pass 2 over the lines read so far.
CompileInit ==
    /\ inBlock = FALSE /\ inList = FALSE /\ inTable = FALSE
    /\ inCard = FALSE /\ inTitle = FALSE
    /\ blockType = "" /\ slideTitle = <<>> /\ slideSubtitle = <<>>
    /\ bullets = <<>> /\ tableRows = <<>> /\ cards = <<>> /\ code = <<>>
    /\ inCode \in BOOLEAN /\ inHTMLCode \in BOOLEAN /\ inFencedCode = FALSE
    /\ notes_text = <<>> /\ slide = 0 /\ tasks = <<>> /\ sequence = <<>>
    /\ slideHrefs = << >> /\ slideNumber = 1
    /\ lastTableLine = -1 /\ tableCaptions = <<>>
    /\ cardBullets = <<>> /\ href = <<>> /\ hrefBound = FALSE
    /\ tableCaption = <<>> /\ tableCaptionBound = FALSE
    /\ lineNumber = 0 /\ slides = <<>> /\ raised = "" /\ compilePc = "pass5"
    /\ lineRead = Line("", 0, <<>>) /\ slideHeadings = <<>>
    /\ headingLevels = <<>> /\ titleRegion = FALSE
    /\ declaredRefs = <<>>
    /\ pass5Start = [inCode |-> inCode, inHTMLCode |-> inHTMLCode]
    /\ pass2 = [inCode |-> FALSE, inHTMLCode |-> FALSE]

\* the pass is not run
CompileIdle ==
    /\ inBlock = FALSE /\ inList = FALSE /\ inTable = FALSE
    /\ inCard = FALSE /\ inTitle = FALSE
    /\ blockType = "" /\ slideTitle = <<>> /\ slideSubtitle = <<>>
    /\ bullets = <<>> /\ tableRows = <<>> /\ cards = <<>> /\ code = <<>>
    /\ inCode = FALSE /\ inHTMLCode = FALSE /\ inFencedCode = FALSE
    /\ notes_text = <<>> /\ slide = 0 /\ tasks = <<>> /\ sequence = <<>>
    /\ slideHrefs = << >> /\ slideNumber = 1
    /\ lastTableLine = -1 /\ tableCaptions = <<>>
    /\ cardBullets = <<>> /\ href = <<>> /\ hrefBound = FALSE
    /\ tableCaption = <<>> /\ tableCaptionBound = FALSE
    /\ lineNumber = 0 /\ slides = <<>> /\ raised = "" /\ compilePc = "idle"
    /\ lineRead = Line("", 0, <<>>) /\ slideHeadings = <<>>
    /\ headingLevels = <<>> /\ titleRegion = FALSE
    /\ declaredRefs = <<>>
    /\ pass5Start = [inCode |-> FALSE, inHTMLCode |-> FALSE]
    /\ pass2 = [inCode |-> FALSE, inHTMLCode |-> FALSE]

\* lines 5786-5787 and 5815: the line takes the branch that starts a slide
\* (slideHeadings keeps the indices of the lines that did)
OpensSlide(s, line) ==
    /\ line.kind # "ignoreme"
    /\ RewriteRule(line).kind = "heading"
    /\ RewriteRule(line).level < cardLevel
    /\ ~ s.inCode

\* the title region of a slide: it starts at a heading of title or section
\* level that opens a slide, goes on over plain text lines and ends at any
\* other line (titleRegion and headingLevels follow the lines read and are
\* no variables of the program)
InTitleRegion(region, s, line) ==
    IF OpensSlide(s, line)
    THEN RewriteRule(line).level < contentLevel
    ELSE IF line.kind \in {"text", "ignoreme"} THEN region
    ELSE FALSE

\* lines 5796 and 5855: the heading carries a heading reference
\* (declaredRefs keeps each such reference with the ordinal of the slide
\* the heading lies on and is no variable of the program)
DeclaresRef(s, line) ==
    /\ line.kind = "heading"
    /\ ~ s.inCode
    /\ line.ref # <<>>

DeclaredRef(s, line, opened) ==
    [ref |-> line.ref[1],
     ordinal |-> IF OpensSlide(s, line) THEN opened + 1 ELSE opened]

\* the references of headings and anchors: none, or the one name "a"
HeadingRefs == {<<>>, <<"a">>}

\* one turn of the loop at line 5286
ReadLine(line) ==
    /\ compilePc = "pass5"
    /\ raised = ""
    /\ lineNumber < MaxLines
    /\ Becomes(LoopBody(State, line, lineNumber))
    /\ lineNumber' = lineNumber + 1
    /\ lineRead' = RewriteRule(line)
    /\ slideHeadings' = IF OpensSlide(State, line)
                        THEN Append(slideHeadings, lineNumber)
                        ELSE slideHeadings
    /\ headingLevels' = IF OpensSlide(State, line)
                        THEN Append(headingLevels, RewriteRule(line).level)
                        ELSE headingLevels
    /\ titleRegion' = InTitleRegion(titleRegion, State, line)
    /\ declaredRefs' = IF DeclaresRef(State, line)
                       THEN Append(declaredRefs,
                                   DeclaredRef(State, line,
                                               Len(slideHeadings)))
                       ELSE declaredRefs
    /\ pass2' = Pass2Flags(pass2, line)
    /\ UNCHANGED <<compilePc, pass5Start>>
    /\ UNCHANGED notCompile

ReadIgnored == ReadLine(Line("ignoreme", 0, <<>>))

ReadPre == ReadLine(Line("pre", 0, <<>>))

ReadEndPre == ReadLine(Line("endpre", 0, <<>>))

ReadFence == ReadLine(Line("fence", 0, <<>>))

ReadBlank == ReadLine(Line("blank", 0, <<>>))

ReadIndented == ReadLine(Line("indented", 0, <<>>))

ReadIndentedBullet == ReadLine(Line("indentedBullet", 2, <<>>))

ReadRule == ReadLine(Line("hr", 0, <<>>))

ReadTask == ReadLine(Line("task", 0, <<>>))

ReadAnchor ==
    \E ref \in HeadingRefs \ {<<>>} : ReadLine(Line("anchor", 0, ref))

ReadDirective == ReadLine(Line("directive", 0, <<>>))

ReadTitleHeading ==
    \E ref \in HeadingRefs : ReadLine(Line("heading", titleLevel, ref))

ReadSectionHeading ==
    \E ref \in HeadingRefs : ReadLine(Line("heading", sectionLevel, ref))

ReadContentHeading ==
    \E ref \in HeadingRefs : ReadLine(Line("heading", contentLevel, ref))

ReadCardHeading ==
    \E ref \in HeadingRefs : ReadLine(Line("heading", cardLevel, ref))

ReadBullet == ReadLine(Line("bullet", 0, <<>>))

ReadNumber == ReadLine(Line("number", 0, <<>>))

ReadMedia == ReadLine(Line("media", 0, <<>>))

ReadRow == ReadLine(Line("row", 0, <<>>))

ReadCaption == ReadLine(Line("caption", 0, <<>>))

ReadText == ReadLine(Line("text", 0, <<>>))

\* the lines are exhausted: lines 6096-6117
EndOfInput ==
    /\ compilePc = "pass5"
    /\ raised = ""
    /\ pass2 = pass5Start
    /\ Becomes(FinishLastSlide(State))
    /\ compilePc' = "done"
    /\ UNCHANGED <<lineNumber, lineRead, slideHeadings, headingLevels,
                   titleRegion, declaredRefs, pass2, pass5Start>>
    /\ UNCHANGED notCompile

\* ========================================================================
\* cli(), passes 2 and 5 over a whole document, and over the same document
\* with a closing fence appended
\* ========================================================================
\* lines 5161-5182, 5281-5282: the state before pass 2, as a record
StartState ==
    [inBlock |-> FALSE, inList |-> FALSE, inTable |-> FALSE,
     inCard |-> FALSE, inTitle |-> FALSE, inCode |-> FALSE,
     inHTMLCode |-> FALSE, inFencedCode |-> FALSE,
     blockType |-> "", slideTitle |-> <<>>,
     slideSubtitle |-> <<>>, bullets |-> <<>>,
     tableRows |-> <<>>, cards |-> <<>>, cardBullets |-> <<>>,
     code |-> <<>>, sequence |-> <<>>, notes_text |-> <<>>,
     slide |-> 0, tasks |-> <<>>, slideNumber |-> 1,
     href |-> <<>>, hrefBound |-> FALSE, slideHrefs |-> << >>,
     lastTableLine |-> -1, tableCaptions |-> <<>>,
     tableCaption |-> <<>>, tableCaptionBound |-> FALSE,
     slides |-> <<>>, raised |-> ""]

\* the loop of pass 2 (line 5191) as far as inCode and inHTMLCode go
RECURSIVE Pass2Over(_, _)
Pass2Over(flags, doc) ==
    IF doc = <<>> THEN flags
    ELSE Pass2Over(Pass2Flags(flags, Head(doc)), Tail(doc))

\* the loop of pass 5 (line 5286) from line i of doc on
RECURSIVE Pass5Over(_, _, _)
Pass5Over(s, doc, i) ==
    IF i > Len(doc) \/ s.raised # "" THEN s
    ELSE Pass5Over(LoopBody(s, doc[i], i - 1), doc, i + 1)

\* passes 2 and 5 and the end of input, lines 5174-6117
CompileDocument(doc) ==
    LET flags == Pass2Over([inCode |-> FALSE, inHTMLCode |-> FALSE], doc)
        start == [StartState EXCEPT !.inCode = flags.inCode,
                                    !.inHTMLCode = flags.inHTMLCode]
        read == Pass5Over(start, doc, 1)
    IN  Then(read, FinishLastSlide(read))

\* line.startswith("```")
FenceCount(doc) ==
    Cardinality({i \in 1..Len(doc) : doc[i].kind = "fence"})

\* the lines a document of this part is made of
DocumentLines ==
    {Line("heading", contentLevel, <<>>), Line("fence", 0, <<>>),
     Line("text", 0, <<>>), Line("bullet", 0, <<>>), Line("row", 0, <<>>)}

NotCompiled == [compiled |-> FALSE]

DocumentInit ==
    /\ document = <<>>
    /\ compiledAsIs = NotCompiled
    /\ compiledClosed = NotCompiled
    /\ documentPc = "writing"

DocumentIdle ==
    /\ document = <<>>
    /\ compiledAsIs = NotCompiled
    /\ compiledClosed = NotCompiled
    /\ documentPc = "idle"

\* one more line of input
WriteLine ==
    /\ documentPc = "writing"
    /\ Len(document) < MaxDocLen
    /\ \E line \in DocumentLines : document' = Append(document, line)
    /\ UNCHANGED <<compiledAsIs, compiledClosed, documentPc>>
    /\ UNCHANGED notDocument

\* the document, and the document with "```" as one more last line, are
\* each compiled
CompileBoth ==
    /\ documentPc = "writing"
    /\ compiledAsIs' = CompileDocument(document)
    /\ compiledClosed' =
           CompileDocument(Append(document, Line("fence", 0, <<>>)))
    /\ documentPc' = "compiled"
    /\ UNCHANGED document
    /\ UNCHANGED notDocument

DocumentNext == WriteLine \/ CompileBoth

\* ========================================================================
\* cli(), passes 1 to 4: comments and metadata, continuation lines,
\* footnote definitions, indirect reference anchors
\* ========================================================================
\* A line of the input is known by the kind of its text; a line of a later
\* stream is the kind of its first part and the indices (from 0) of the
\* input lines it is made of, in order.
StreamLine(kind, parts) == [kind |-> kind, parts |-> parts]

\* line.lstrip().startswith("<!-- md2pptx: ")
IsDirectiveText(kind) == kind = "directive"

\* line.lstrip().startswith("<!--")
StartsComment(kind) == kind \in {"directive", "comment", "commentOpen"}

\* line.rstrip().endswith("-->")
EndsComment(kind) == kind \in {"directive", "comment", "commentClose"}

\* line.lstrip()[:1] == "<"
StartsTag(kind) ==
    kind \in {"anchor", "pre", "endpre", "video", "html", "directive",
              "comment", "commentOpen"}

\* line.lstrip()[:1] == "#"
StartsHash(kind) == kind \in {"title", "section", "content", "card"}

\* the state of pass 1, lines 4261-4271
Pass1Start ==
    [metadata_lines |-> <<>>, afterMetadataAndHTML |-> <<>>,
     inMetadata |-> TRUE, in_comment |-> FALSE, inHTML |-> FALSE,
     inCode |-> FALSE]

\* lines 4338-4344
MetadataOrBody(p, entry) ==
    IF p.inMetadata
    THEN [p EXCEPT !.metadata_lines = Append(@, entry)]
    ELSE [p EXCEPT !.afterMetadataAndHTML = Append(@, entry)]

\* lines 4295-4316
Pass1Tag(p, kind, entry) ==
    IF kind = "anchor" \/ kind = "video"
    THEN [p EXCEPT !.afterMetadataAndHTML = Append(@, entry)]
    ELSE IF kind = "pre"
    THEN [p EXCEPT !.inCode = TRUE,
                   !.afterMetadataAndHTML = Append(@, entry)]
    ELSE IF kind = "endpre"
    THEN [p EXCEPT !.inCode = FALSE,
                   !.afterMetadataAndHTML = Append(@, entry)]
    ELSE [p EXCEPT !.inHTML = TRUE]

\* the body of the loop of pass 1, lines 4274-4344, for input line i
Pass1Line(p, kind, i) ==
    LET entry == StreamLine(kind, <<i>>)
        kept == IF IsDirectiveText(kind)
                THEN [p EXCEPT !.afterMetadataAndHTML = Append(@, entry)]
                ELSE p
    IN  IF StartsComment(kind)
        THEN IF EndsComment(kind) THEN kept
             ELSE [kept EXCEPT !.in_comment = TRUE]
        ELSE IF EndsComment(kind) THEN [kept EXCEPT !.in_comment = FALSE]
        ELSE IF kept.in_comment THEN kept
        ELSE IF StartsTag(kind) /\ ~ kept.inCode
        THEN Pass1Tag(kept, kind, entry)
        ELSE IF kind = "fence"
        THEN MetadataOrBody([kept EXCEPT !.inCode = ~ @], entry)
        ELSE IF StartsHash(kind)
        THEN MetadataOrBody([kept EXCEPT !.inMetadata = FALSE,
                                         !.inHTML = FALSE], entry)
        ELSE IF kept.inHTML THEN kept
        ELSE IF kept.inCode
        THEN [kept EXCEPT !.afterMetadataAndHTML = Append(@, entry)]
        ELSE IF kind = "blank"
        THEN MetadataOrBody([kept EXCEPT !.inMetadata = FALSE], entry)
        ELSE MetadataOrBody(kept, entry)

\* for line in input_file, line 4274
RECURSIVE Pass1Over(_, _, _)
Pass1Over(p, input, i) ==
    IF i > Len(input) THEN p
    ELSE Pass1Over(Pass1Line(p, input[i], i - 1), input, i + 1)

\* the state of pass 2, lines 5174-5175 and 5188-5189; previousLine is
\* kept as the kind of the line
Pass2Start ==
    [linesAfterConcatenation |-> <<>>, previousLine |-> "blank",
     inCode |-> FALSE, inHTMLCode |-> FALSE]

\* line.lstrip()[0] in r"*#\|0123456789!"
StartsBlockCharacter(kind) ==
    kind \in {"title", "section", "content", "card", "bullet", "number",
              "row", "media"}

\* lines 5233-5240: the previous line and the flags allow a continuation
AllowsContinuation(q) ==
    /\ q.previousLine # "title"
    /\ q.previousLine # "section"
    /\ q.previousLine # "indented"
    /\ q.previousLine # "row"
    /\ ~ q.inCode
    /\ ~ q.inHTMLCode

\* lines 5242-5244: rstrip() + " " + lstrip()
JoinToLast(lines, line) ==
    [lines EXCEPT ![Len(lines)] =
        StreamLine(@.kind, @.parts \o line.parts)]

\* the body of the loop of pass 2, lines 5191-5252
Pass2Line(q, line) ==
    LET kind == line.kind
        copied == [q EXCEPT !.linesAfterConcatenation = Append(@, line)]
        next ==
            IF kind = "pre" THEN [copied EXCEPT !.inHTMLCode = TRUE]
            ELSE IF kind = "endpre" THEN [copied EXCEPT !.inHTMLCode = FALSE]
            ELSE IF kind = "fence" THEN [copied EXCEPT !.inCode = ~ @]
            ELSE IF kind = "blank" THEN copied
            ELSE IF q.previousLine = "blank" THEN copied
            ELSE IF kind \in {"directive", "anchor", "video"} THEN copied
            ELSE IF kind = "spaces" THEN copied
            ELSE IF ~ StartsBlockCharacter(kind) /\ AllowsContinuation(q)
            THEN [q EXCEPT !.linesAfterConcatenation = JoinToLast(@, line)]
            ELSE copied
    IN  [next EXCEPT !.previousLine = kind]

\* for line in afterMetadataAndHTML, line 5191
RECURSIVE Pass2Lines(_, _)
Pass2Lines(q, lines) ==
    IF lines = <<>> THEN q
    ELSE Pass2Lines(Pass2Line(q, Head(lines)), Tail(lines))

\* the line that pass 3 and pass 4 leave in the place of a definition
Sentinel == StreamLine("ignoreme", <<>>)

\* footnoteDefinitionRegex.match(line), line 4233
MatchesFootnoteDefinition(line) == line.kind = "footnoteDef"

\* indirectReferenceAnchorRegex.match(line), line 4237: "[^ref]: text"
\* matches it as well
MatchesIndirectAnchor(line) == line.kind \in {"footnoteDef", "referenceDef"}

\* the matching lines, in order
Matching(lines, Matches(_)) == SelectSeq(lines, Matches)

\* the lines with every matching line replaced at its index
Replaced(lines, Matches(_)) ==
    [i \in 1..Len(lines) |-> IF Matches(lines[i]) THEN Sentinel ELSE lines[i]]

\* the kind of a line as pass 5 tests it, after line.rstrip()
Pass5Line(line) ==
    IF line.kind = "title" THEN Line("heading", titleLevel, <<>>)
    ELSE IF line.kind = "section" THEN Line("heading", sectionLevel, <<>>)
    ELSE IF line.kind = "content" THEN Line("heading", contentLevel, <<>>)
    ELSE IF line.kind = "card" THEN Line("heading", cardLevel, <<>>)
    ELSE IF line.kind = "spaces" THEN Line("blank", 0, <<>>)
    ELSE IF line.kind = "video" THEN Line("media", 0, <<>>)
    ELSE IF line.kind = "anchor" THEN Line("anchor", 0, <<"a">>)
    ELSE IF line.kind \in {"ignoreme", "pre", "endpre", "fence", "blank",
                           "indented", "directive", "bullet", "number",
                           "media", "row"}
    THEN Line(line.kind, 0, <<>>)
    ELSE Line("text", 0, <<>>)

Pass5Lines(lines) == [i \in 1..Len(lines) |-> Pass5Line(lines[i])]

\* mutant: pass 3 records the definitions and leaves their lines in place
Pass3LinesKept(lines) == lines

\* pass 3, lines 5254-5265: the lines it leaves
Pass3Lines(lines) == Replaced(lines, MatchesFootnoteDefinition)

\* pass 3, lines 5258-5261: the definitions it records
Pass3Definitions(lines) == Matching(lines, MatchesFootnoteDefinition)

\* pass 4, lines 5267-5279: the lines it leaves
Pass4Lines(lines) == Replaced(lines, MatchesIndirectAnchor)

\* pass 4, lines 5272-5276: the anchors it records
Pass4Anchors(lines) == Matching(lines, MatchesIndirectAnchor)

\* pass 5 and the end of input over the lines passes 1-4 left, lines
\* 5286-6117
CompileLines(lines, flags) ==
    LET start == [StartState EXCEPT !.inCode = flags.inCode,
                                    !.inHTMLCode = flags.inHTMLCode]
        read == Pass5Over(start, Pass5Lines(lines), 1)
    IN  Then(read, FinishLastSlide(read))

NormalizeInit ==
    /\ input_file = <<>>
    /\ metadata_lines = <<>>
    /\ afterMetadataAndHTML = <<>>
    /\ linesAfterConcatenation = <<>>
    /\ codeFlags = [inCode |-> FALSE, inHTMLCode |-> FALSE]
    /\ footnoteDefinitions = <<>>
    /\ indirectAnchors = <<>>
    /\ compiledLines = NotCompiled
    /\ normalizePc = "input"

NormalizeIdle ==
    /\ input_file = <<>>
    /\ metadata_lines = <<>>
    /\ afterMetadataAndHTML = <<>>
    /\ linesAfterConcatenation = <<>>
    /\ codeFlags = [inCode |-> FALSE, inHTMLCode |-> FALSE]
    /\ footnoteDefinitions = <<>>
    /\ indirectAnchors = <<>>
    /\ compiledLines = NotCompiled
    /\ normalizePc = "idle"

\* one more line of the input file, of one of the given kinds
InputLine(kinds) ==
    /\ normalizePc = "input"
    /\ Len(input_file) < MaxInputLen
    /\ \E kind \in kinds : input_file' = Append(input_file, kind)
    /\ UNCHANGED <<metadata_lines, afterMetadataAndHTML,
                   linesAfterConcatenation, codeFlags, footnoteDefinitions,
                   indirectAnchors, compiledLines, normalizePc>>
    /\ UNCHANGED notNormalize

\* lines 4261-4344
RunPass1 ==
    /\ normalizePc = "input"
    /\ LET p == Pass1Over(Pass1Start, input_file, 1)
       IN  /\ metadata_lines' = p.metadata_lines
           /\ afterMetadataAndHTML' = p.afterMetadataAndHTML
    /\ normalizePc' = "pass2"
    /\ UNCHANGED <<input_file, linesAfterConcatenation, codeFlags,
                   footnoteDefinitions, indirectAnchors, compiledLines>>
    /\ UNCHANGED notNormalize

\* lines 5174-5252
RunPass2 ==
    /\ normalizePc = "pass2"
    /\ LET q == Pass2Lines(Pass2Start, afterMetadataAndHTML)
       IN  /\ linesAfterConcatenation' = q.linesAfterConcatenation
           /\ codeFlags' = [inCode |-> q.inCode, inHTMLCode |-> q.inHTMLCode]
    /\ normalizePc' = "pass3"
    /\ UNCHANGED <<input_file, metadata_lines, afterMetadataAndHTML,
                   footnoteDefinitions, indirectAnchors, compiledLines>>
    /\ UNCHANGED notNormalize

\* lines 5254-5265
RunPass3 ==
    /\ normalizePc = "pass3"
    /\ footnoteDefinitions' = Pass3Definitions(linesAfterConcatenation)
    /\ linesAfterConcatenation' = Pass3Lines(linesAfterConcatenation)
    /\ normalizePc' = "pass4"
    /\ UNCHANGED <<input_file, metadata_lines, afterMetadataAndHTML,
                   codeFlags, indirectAnchors, compiledLines>>
    /\ UNCHANGED notNormalize

\* lines 5267-5279
RunPass4 ==
    /\ normalizePc = "pass4"
    /\ indirectAnchors' = Pass4Anchors(linesAfterConcatenation)
    /\ linesAfterConcatenation' = Pass4Lines(linesAfterConcatenation)
    /\ normalizePc' = "pass5"
    /\ UNCHANGED <<input_file, metadata_lines, afterMetadataAndHTML,
                   codeFlags, footnoteDefinitions, compiledLines>>
    /\ UNCHANGED notNormalize

\* lines 5281-6117
RunPass5 ==
    /\ normalizePc = "pass5"
    /\ compiledLines' = CompileLines(linesAfterConcatenation, codeFlags)
    /\ normalizePc' = "compiled"
    /\ UNCHANGED <<input_file, metadata_lines, afterMetadataAndHTML,
                   linesAfterConcatenation, codeFlags, footnoteDefinitions,
                   indirectAnchors>>
    /\ UNCHANGED notNormalize

RunPasses == RunPass1 \/ RunPass2 \/ RunPass3 \/ RunPass4 \/ RunPass5

\* input with code, comments, raw HTML and definitions
VerbatimKinds ==
    {"blank", "fence", "pre", "endpre", "comment", "html", "footnoteDef",
     "referenceDef", "text"}

InputVerbatimLine == InputLine(VerbatimKinds)

VerbatimNext == InputVerbatimLine \/ RunPasses

\* input with headings, lists, tables, media and text
JoinKinds ==
    {"blank", "text", "title", "section", "content", "bullet", "number",
     "row", "media", "indented", "fence"}

InputJoinLine == InputLine(JoinKinds)

JoinNext == InputJoinLine \/ RunPasses

\* input with footnote definitions and indirect reference anchors
DefinitionKinds ==
    {"blank", "text", "content", "footnoteDef", "referenceDef", "fence"}

InputDefinitionLine == InputLine(DefinitionKinds)

DefinitionsNext == InputDefinitionLine \/ RunPasses

\* ========================================================================
\* createTableBlock, lines 2514-2603: graphics grid or ruled table
\* ========================================================================
\* a cell is known by whether one of the media regexes matches it
GridCellKinds == {"media", "text"}

GridRowsOf(n) == UNION {[1..m -> GridCellKinds] : m \in 1..n}

GridInputs ==
    UNION {[1..m -> GridRowsOf(MaxGridColumns)] : m \in 1..MaxGridRows}

\* parseMedia, lines 609-665: the graphic count and the HTML it returns;
\* the cell "" is no media reference, the cell "missing" is a media
\* reference whose file cannot be found
ParseMedia(cellString, graphicCount) ==
    IF cellString \in {"media", "missing"}
    THEN [graphicCount |-> graphicCount + 1, HTML |-> ""]
    ELSE [graphicCount |-> graphicCount, HTML |-> cellString]

\* lines 2521-2554: the graphic count of the top row
TopGraphicCount(grid) ==
    LET left == ParseMedia(grid[1][1], 0)
        rightCell == IF Len(grid[1]) = 2 THEN grid[1][2] ELSE ""
    IN  ParseMedia(rightCell, left.graphicCount).graphicCount

\* lines 2517-2520
GridColumns(grid) ==
    IF Len(grid) = 1 THEN Len(grid[1]) ELSE Max(Len(grid[1]), Len(grid[2]))

\* lines 2556-2599: the graphic count of the bottom row
BottomGraphicCount(grid) ==
    LET left == ParseMedia(grid[2][1], 0)
        rightCell == IF GridColumns(grid) = 2 /\ Len(grid[2]) # 1
                     THEN grid[2][2] ELSE ""
    IN  ParseMedia(rightCell, left.graphicCount).graphicCount

\* lines 2515-2603
IsGraphicsGrid(grid) ==
    IF Len(grid) <= 2 /\ Len(grid[1]) <= 2
    THEN /\ TopGraphicCount(grid) # 0
         /\ Len(grid) = 2 => BottomGraphicCount(grid) # 0
    ELSE FALSE

GridInit ==
    /\ gridTableRows \in GridInputs
    /\ isGraphicsGrid = FALSE
    /\ gridPc = "start"

GridIdle ==
    /\ gridTableRows = <<>>
    /\ isGraphicsGrid = FALSE
    /\ gridPc = "idle"

\* lines 2514-2603
ClassifyGrid ==
    /\ gridPc = "start"
    /\ isGraphicsGrid' = IsGraphicsGrid(gridTableRows)
    /\ gridPc' = "classified"
    /\ UNCHANGED gridTableRows
    /\ UNCHANGED notGrid

GridNext == ClassifyGrid

\* ========================================================================
\* createSlide calling createTOCSlide for one slide after another
\* ========================================================================
\* the bullets of a TOC-style slide
DeckBulletLists ==
    {[i \in 1..Len(levels) |-> <<levels[i], i, "bulleted">>] :
        levels \in SeqsUpTo({0, 1}, MaxDeckBullets)}

\* the options are resolved once; TOCEntries is the module-level list
\* created empty at line 4522
DeckInit ==
    /\ tocStyle \in {"chevron", "circle"}
    /\ TOCItemHeight \in {1, 5}
    /\ TOCRowGap = 1
    /\ marginBase = 10
    /\ slide_width \in {90, 250}
    /\ slideTitleBottom = 40
    /\ tocContentHeight = 400
    /\ tocBullets \in DeckBulletLists
    /\ TOCEntries = <<>>
    /\ height = 0 /\ width = FracInt(0) /\ entryGap = 0 /\ rowGap = 0
    /\ TOCEntriesPerRow = 0
    /\ rowCount = FracInt(0)
    /\ TOCtop = FracInt(0) /\ TOCleft = FracInt(0)
    /\ x = FracInt(0) /\ y = FracInt(0)
    /\ AbsoluteTOCEntryNumber = 0 /\ TOCEntryNumber = 0
    /\ tocShapes = <<>>
    /\ tocPc = "start"
    /\ laidOut = <<>>

DeckIdle == laidOut = <<>>

\* lines 3673-3706: createTOCSlide has returned the slide; createSlide is
\* called for the next TOC-style slide.  The locals of createTOCSlide are
\* new, TOCEntries is not
LayOutNextSlide ==
    /\ tocPc = "done"
    /\ Len(laidOut) + 1 < MaxDeckSlides
    /\ laidOut' = Append(laidOut, [bullets |-> tocBullets, shapes |-> tocShapes])
    /\ \E next \in DeckBulletLists : tocBullets' = next
    /\ height' = 0 /\ width' = FracInt(0) /\ entryGap' = 0 /\ rowGap' = 0
    /\ TOCEntriesPerRow' = 0
    /\ rowCount' = FracInt(0)
    /\ TOCtop' = FracInt(0) /\ TOCleft' = FracInt(0)
    /\ x' = FracInt(0) /\ y' = FracInt(0)
    /\ AbsoluteTOCEntryNumber' = 0 /\ TOCEntryNumber' = 0
    /\ tocShapes' = <<>>
    /\ tocPc' = "start"
    /\ UNCHANGED <<tocStyle, TOCItemHeight, TOCRowGap, slide_width, marginBase,
                   slideTitleBottom, tocContentHeight, TOCEntries>>
    /\ UNCHANGED notTOCOrDeck

DeckNext == TOCNext \/ LayOutNextSlide

\* ========================================================================
\* the metadata block and the dynamic directives setting options
\* ========================================================================
OptionNames ==
    {"cardlayout", "cardshape", "cardtitleposition", "tocstyle",
     "pagetitlealign", "contentsplitdirection", "transition", "pagetitlesize"}

\* the names a line can carry: the options and a name no branch handles
LineNames == OptionNames \cup {"subject"}

LineValues ==
    {"vertical", "line", "inside", "plain", "l", "ripple", "pop", "24", "bogus"}

\* the store keeps three tiers for an option: the default, the value of
\* the presentation and the dynamic overrides, latest last
Tiers(value) == [default |-> value, presentation |-> value, dynamic |-> <<>>]

\* the current value: the latest dynamic override, else the presentation's
GetCurrentOption(store, name) ==
    IF store[name].dynamic # <<>>
    THEN store[name].dynamic[Len(store[name].dynamic)]
    ELSE store[name].presentation

\* setOptionValues while the metadata is read: the presentation's value
SetOptionValues(store, name, value) ==
    [store EXCEPT ![name].presentation = value]

\* dynamicallySetOption: "pop" drops the latest override, any other value
\* becomes the latest override
DynamicallySetOption(store, name, value) ==
    IF value = "pop"
    THEN [store EXCEPT ![name].dynamic =
              IF @ = <<>> THEN @ ELSE SubSeq(@, 1, Len(@) - 1)]
    ELSE [store EXCEPT ![name].dynamic = Append(@, value)]

\* lines 4359-4507: the defaults
DefaultOptions ==
    [name \in OptionNames |->
        Tiers(CASE name = "cardlayout" -> "horizontal"
                [] name = "cardshape" -> "rounded"
                [] name = "cardtitleposition" -> "above"
                [] name = "tocstyle" -> ""
                [] name = "pagetitlealign" -> "left"
                [] name = "contentsplitdirection" -> "vertical"
                [] name = "transition" -> "none"
                [] name = "pagetitlesize" -> "30")]

NoLine == [from |-> "", matches |-> FALSE, name |-> "", value |-> ""]

OptionsInit ==
    /\ processingOptions = DefaultOptions
    /\ metadata = <<>>
    /\ optionReports = <<>>
    /\ optionLine = NoLine
    /\ optionLines = 0
    /\ optionPc = "metadata"

OptionsIdle ==
    /\ processingOptions = DefaultOptions
    /\ metadata = <<>>
    /\ optionReports = <<>>
    /\ optionLine = NoLine
    /\ optionLines = 0
    /\ optionPc = "idle"

\* float(value): the value when it is written as a number, else ValueError
Float(value) ==
    IF value = "24" THEN [raised |-> "", value |-> value]
    ELSE [raised |-> "ValueError", value |-> value]

\* the outcome of one line: the store, what is printed, what is raised
Outcome(store, report, exception) ==
    [store |-> store, report |-> report, raised |-> exception]

Unsupported(store) == Outcome(store, <<"unsupported value">>, "")

\* lines 4651-4662
MetadataPageTitleAlign(store, name, value) ==
    IF value \in {"left", "right", "center", "centre", "l", "r", "c"}
    THEN Outcome(SetOptionValues(store, name,
                     CASE value \in {"left", "l"} -> "left"
                       [] value \in {"right", "r"} -> "right"
                       [] OTHER -> "center"), <<>>, "")
    ELSE Unsupported(store)

\* lines 4729-4735, 4838-4860: the value is set when it is in the list
MetadataOneOf(store, name, value, allowed) ==
    IF value \in allowed
    THEN Outcome(SetOptionValues(store, name, value), <<>>, "")
    ELSE Unsupported(store)

\* lines 4894-4919
MetadataContentSplitDirection(store, value) ==
    IF value \in {"vertical", "horizontal", "v", "h",
                  "default", "pres", "pop", "prev"}
    THEN Outcome(SetOptionValues(store, "contentsplitdirection",
                     CASE value = "v" -> "vertical"
                       [] value = "h" -> "horizontal"
                       [] OTHER -> value), <<>>, "")
    ELSE Unsupported(store)

TransitionNames ==
    {"none", "ripple", "reveal", "honeycomb", "shred", "wipe", "push",
     "vortex", "split", "fracture"}

\* lines 4647-4648
MetadataPageTitleSize(store, name, value) ==
    IF Float(value).raised # ""
    THEN Outcome(store, <<>>, Float(value).raised)
    ELSE Outcome(SetOptionValues(store, name, Float(value).value), <<>>, "")

\* lines 4622-5104: the branch of the name
MetadataOption(store, name, value) ==
    CASE name = "pagetitlesize" -> MetadataPageTitleSize(store, name, value)
      [] name = "pagetitlealign" -> MetadataPageTitleAlign(store, name, value)
      [] name = "tocstyle" ->
            MetadataOneOf(store, name, value, {"chevron", "circle", "plain"})
      [] name = "cardlayout" ->
            MetadataOneOf(store, name, value, {"horizontal", "vertical"})
      [] name = "cardshape" ->
            MetadataOneOf(store, name, value, {"squared", "rounded", "line"})
      [] name = "cardtitleposition" ->
            MetadataOneOf(store, name, value,
                          {"above", "inside", "before", "after"})
      [] name = "contentsplitdirection" ->
            MetadataContentSplitDirection(store, value)
      [] name = "transition" ->
            MetadataOneOf(store, name, value, TransitionNames)
      [] OTHER -> Outcome(store, <<>>, "")

\* lines 4608-5104: one iteration of "for line in metadata_lines"
MetadataLine(line) ==
    IF ~ line.matches
    THEN /\ optionReports' = Append(optionReports, "invalid metadata line")
         /\ UNCHANGED <<processingOptions, metadata, optionPc>>
    ELSE LET out == MetadataOption(processingOptions, line.name, line.value)
         IN  /\ metadata' = Append(metadata, <<line.name, line.value>>)
             /\ processingOptions' = out.store
             /\ optionReports' = optionReports \o out.report
             /\ optionPc' = IF out.raised # "" THEN out.raised ELSE optionPc

ParseMetadataLine ==
    /\ optionPc = "metadata"
    /\ optionLines < MaxOptionLines
    /\ \E line \in {[NoLine EXCEPT !.from = "metadata"]} \cup
                   [from : {"metadata"}, matches : {TRUE},
                    name : LineNames, value : LineValues] :
            /\ optionLine' = line
            /\ MetadataLine(line)
    /\ optionLines' = optionLines + 1
    /\ UNCHANGED notOptions

\* the metadata is read; the passes over the body follow
EndMetadata ==
    /\ optionPc = "metadata"
    /\ optionPc' = "compile"
    /\ UNCHANGED <<processingOptions, metadata, optionReports, optionLine,
                   optionLines>>
    /\ UNCHANGED notOptions

DirectiveKeywords == {"pres", "default", "pop", "prev"}

\* lines 5454-5458, 5535-5539: the value is handed to the store as it is
DirectiveAnyValue(store, name, value) ==
    Outcome(DynamicallySetOption(store, name, value), <<>>, "")

\* lines 5547-5556, 5720-5742: the value is handed on when it is in the list
DirectiveOneOf(store, name, value, allowed) ==
    IF value \in allowed
    THEN Outcome(DynamicallySetOption(store, name, value), <<>>, "")
    ELSE Unsupported(store)

\* lines 5640-5667
DirectiveContentSplitDirection(store, value) ==
    IF value \in {"vertical", "horizontal", "v", "h"} \cup DirectiveKeywords
    THEN Outcome(DynamicallySetOption(store, "contentsplitdirection",
                     CASE value = "v" -> "vertical"
                       [] value = "h" -> "horizontal"
                       [] OTHER -> value), <<>>, "")
    ELSE Unsupported(store)

\* lines 5412-5782: the branch of the key
DirectiveOption(store, name, value) ==
    CASE name = "cardlayout" -> DirectiveAnyValue(store, name, value)
      [] name = "cardtitleposition" -> DirectiveAnyValue(store, name, value)
      [] name = "cardshape" ->
            DirectiveOneOf(store, name, value, {"squared", "rounded", "line"})
      [] name = "contentsplitdirection" ->
            DirectiveContentSplitDirection(store, value)
      [] name = "transition" ->
            DirectiveOneOf(store, name, value,
                           TransitionNames \cup DirectiveKeywords)
      [] OTHER -> Outcome(store, <<"invalid dynamic metadata key">>, "")

\* the keys of the directives read: the enumerated options and an unknown key
DirectiveNames == LineNames \ {"pagetitlesize"}

\* lines 5406-5782: a line "<!-- md2pptx: key: value -->" of the main pass
DynamicDirective ==
    /\ optionPc = "compile"
    /\ optionLines < MaxOptionLines
    /\ \E line \in [from : {"directive"}, matches : {TRUE},
                    name : DirectiveNames, value : LineValues] :
            LET out == DirectiveOption(processingOptions, line.name, line.value)
            IN  /\ optionLine' = line
                /\ processingOptions' = out.store
                /\ optionReports' = optionReports \o out.report
    /\ optionLines' = optionLines + 1
    /\ UNCHANGED <<metadata, optionPc>>
    /\ UNCHANGED notOptions

OptionsNext == ParseMetadataLine \/ EndMetadata \/ DynamicDirective

\* ========================================================================
\* createListBlock: the bullets region, the card region, the cards
\* ========================================================================
\* cardPercent and the gaps are numbers of the options, kept as quotients
CardPercents == {Frac(0, 1), Frac(67, 2), Frac(80, 1), Frac(100, 1)}

ListInit ==
    /\ renderingRectangle \in
           {Rectangle(20, l, h, w) : l \in {10, 160}, h \in {300, 301},
                                     w \in {150, 301}}
    /\ listMargin = 10
    /\ bulletCount \in {0, 2}
    /\ cardCount \in 0..MaxCards
    /\ cardPercent \in CardPercents
    /\ cardLayout \in {"horizontal", "vertical"}
    /\ cardTitlePosition \in {"above", "inside"}
    /\ horizontalCardGap = Frac(1, 4)
    /\ verticalCardGap \in {Frac(0, 1), Frac(3, 20)}
    /\ cardTitleHeight \in {0, 4}
    /\ bulletsShapeHeight = 0
    /\ cardAreaHeight = 0
    /\ cardAreaTop = 0
    /\ cardWidth = 0
    /\ cardHeight = 0
    /\ paddingFactor = 0
    /\ cardNumber = 0
    /\ cardShapes = <<>>
    /\ listPc = "start"

ListIdle ==
    /\ renderingRectangle = Rectangle(0, 0, 0, 0)
    /\ listMargin = 0
    /\ bulletCount = 0
    /\ cardCount = 0
    /\ cardPercent = Frac(0, 1)
    /\ cardLayout = "horizontal"
    /\ cardTitlePosition = "above"
    /\ horizontalCardGap = Frac(0, 1)
    /\ verticalCardGap = Frac(0, 1)
    /\ cardTitleHeight = 0
    /\ bulletsShapeHeight = 0
    /\ cardAreaHeight = 0
    /\ cardAreaTop = 0
    /\ cardWidth = 0
    /\ cardHeight = 0
    /\ paddingFactor = 0
    /\ cardNumber = 0
    /\ cardShapes = <<>>
    /\ listPc = "idle"

listInputs == <<renderingRectangle, listMargin, bulletCount, cardCount,
                cardPercent, cardLayout, cardTitlePosition,
                horizontalCardGap, verticalCardGap, cardTitleHeight>>

\* mutant: the bullets get the cards' share
BulletsShapeHeightOfCards(blockHeight, percent) ==
    Trunc(blockHeight * percent[1], 100 * percent[2])

\* line 2033: int(renderingRectangle.height * (100 - cardPercent) / 100)
BulletsShapeHeight(blockHeight, percent) ==
    Trunc(blockHeight * (100 * percent[2] - percent[1]), 100 * percent[2])

\* lines 2018-2045: the heights of the bullets shape and of the card area
ListRegions ==
    /\ listPc = "start"
    /\ IF cardCount = 0
       THEN /\ bulletsShapeHeight' = renderingRectangle.height
            /\ cardAreaHeight' = 0
            /\ listPc' = "filled"
       ELSE /\ IF bulletCount > 0
               THEN /\ bulletsShapeHeight' =
                          BulletsShapeHeight(renderingRectangle.height,
                                             cardPercent)
                    /\ cardAreaHeight' =
                          renderingRectangle.height - bulletsShapeHeight'
               ELSE /\ bulletsShapeHeight' = 0
                    /\ cardAreaHeight' = renderingRectangle.height
            /\ listPc' = "sizes"
    /\ UNCHANGED <<listInputs, cardAreaTop, cardWidth, cardHeight,
                   paddingFactor, cardNumber, cardShapes>>
    /\ UNCHANGED notList

\* lines 2092-2095: Inches(verticalCardGap - 0.05) or Inches(verticalCardGap)
PaddingFactor(position, gap) ==
    IF position = "above"
    THEN Inches(20 * gap[1] - gap[2], 20 * gap[2])
    ELSE Inches(gap[1], gap[2])

\* lines 2051-2097: the width and the height of a card, the card area's top
ListCardSizes ==
    /\ listPc = "sizes"
    /\ cardWidth' =
          IF cardLayout = "horizontal"
          THEN Trunc(renderingRectangle.width
                       - Inches(horizontalCardGap[1], horizontalCardGap[2])
                         * (cardCount - 1),
                     cardCount)
          ELSE renderingRectangle.width
    /\ cardAreaTop' =
          IF bulletCount > 0
          THEN bulletsShapeHeight + renderingRectangle.top
          ELSE renderingRectangle.top
    /\ IF cardLayout = "horizontal"
       THEN /\ cardHeight' = cardAreaHeight
            /\ UNCHANGED paddingFactor
       ELSE /\ paddingFactor' = PaddingFactor(cardTitlePosition, verticalCardGap)
            /\ cardHeight' = Trunc(cardAreaHeight - paddingFactor' * cardCount,
                                   cardCount)
    /\ cardNumber' = 0
    /\ listPc' = "cards"
    /\ UNCHANGED <<listInputs, bulletsShapeHeight, cardAreaHeight, cardShapes>>
    /\ UNCHANGED notList

\* lines 2118-2148 and 2321-2358: the position of card c and of its
\* background shape; c counts from 0
ListPlaceCard ==
    /\ listPc = "cards"
    /\ cardNumber < cardCount
    /\ LET top == IF cardLayout = "horizontal" THEN cardAreaTop
                  ELSE (cardHeight + paddingFactor) * cardNumber + cardAreaTop
           left == IF cardLayout = "horizontal"
                   THEN listMargin + cardNumber *
                            (cardWidth + Inches(horizontalCardGap[1],
                                                horizontalCardGap[2]))
                   ELSE listMargin
       IN  cardShapes' = Append(cardShapes,
               [top |-> top, left |-> left, width |-> cardWidth,
                height |-> cardHeight,
                backgroundTop |-> IF cardTitlePosition = "above"
                                  THEN top + cardTitleHeight ELSE top,
                backgroundHeight |-> IF cardTitlePosition = "above"
                                     THEN cardHeight - cardTitleHeight
                                     ELSE cardHeight])
    /\ cardNumber' = cardNumber + 1
    /\ UNCHANGED <<listInputs, bulletsShapeHeight, cardAreaHeight, cardAreaTop,
                   cardWidth, cardHeight, paddingFactor, listPc>>
    /\ UNCHANGED notList

\* the cards are placed
ListCardsPlaced ==
    /\ listPc = "cards"
    /\ cardNumber = cardCount
    /\ listPc' = "filled"
    /\ UNCHANGED <<listInputs, bulletsShapeHeight, cardAreaHeight, cardAreaTop,
                   cardWidth, cardHeight, paddingFactor, cardNumber, cardShapes>>
    /\ UNCHANGED notList

\* lines 2296-2300, 2500: the bullets are rendered, the block is done
ListReturn ==
    /\ listPc = "filled"
    /\ listPc' = "done"
    /\ UNCHANGED <<listInputs, bulletsShapeHeight, cardAreaHeight, cardAreaTop,
                   cardWidth, cardHeight, paddingFactor, cardNumber, cardShapes>>
    /\ UNCHANGED notList

ListNext ==
    ListRegions \/ ListCardSizes \/ ListPlaceCard \/ ListCardsPlaced \/ ListReturn

\* ------------------------------------------------------------------------
\* createTableBlock on a graphics grid (lines 2604-3137), called from the
\* block loop of createContentSlide (lines 1949-1979)
\* ------------------------------------------------------------------------

\* a media reference that is found, one that is not found, a text cell
MediaCellKinds == {"media", "missing", "text"}

MediaRowsOf(n) == UNION {[1..m -> MediaCellKinds] : m \in 1..n}

\* grids of the shape a graphics grid has: one or two rows of one or two
\* cells
MediaGrids == UNION {[1..m -> MediaRowsOf(2)] : m \in 1..2}

\* the blocks that follow the table block on the slide
FollowingBlocks == UNION {[1..m -> {"list", "code"}] : m \in 0..2}

\* lines 2521-2599: the positions whose cell is parsed, in the order top
\* left, top right, bottom left, bottom right; a position the row does not
\* have holds the empty cell
GridPositions(grid) ==
    <<<<1, 1>>>>
    \o (IF GridColumns(grid) = 2 THEN <<<<1, 2>>>> ELSE <<>>)
    \o (IF Len(grid) = 2 THEN <<<<2, 1>>>> ELSE <<>>)
    \o (IF Len(grid) = 2 /\ GridColumns(grid) = 2 THEN <<<<2, 2>>>> ELSE <<>>)

GridCell(grid, position) ==
    IF position[2] <= Len(grid[position[1]])
    THEN grid[position[1]][position[2]]
    ELSE ""

IsMissingAt(grid, position) == GridCell(grid, position) = "missing"

IsMediaAt(grid, position) ==
    GridCell(grid, position) \in {"media", "missing"}

MissingMediaOfTopRow(grid) ==
    SelectSeq(GridPositions(grid),
              LAMBDA position : /\ position[1] = 1
                                /\ IsMissingAt(grid, position))

\* lines 2627-2777: the positions whose dimensions resolve to -1, in the
\* order they are looked up
MissingMedia(grid) ==
    SelectSeq(GridPositions(grid),
              LAMBDA position : IsMissingAt(grid, position))

\* lines 2799-3137: one picture or movie for every position that holds a
\* media reference
GridTiles(grid) ==
    SelectSeq(GridPositions(grid),
              LAMBDA position : IsMediaAt(grid, position))

MediaInit ==
    /\ mediaTableRows \in MediaGrids
    /\ mediaSequence \in {<<"table">> \o following :
                             following \in FollowingBlocks}
    /\ mediaReports = <<>>
    /\ mediaTiles = <<>>
    /\ mediaRendered = <<>>
    /\ mediaPc = "table"

MediaIdle ==
    /\ mediaTableRows = <<>>
    /\ mediaSequence = <<>>
    /\ mediaReports = <<>>
    /\ mediaTiles = <<>>
    /\ mediaRendered = <<>>
    /\ mediaPc = "idle"

\* lines 2627-2777: the first position whose dimensions are -1 is reported
\* and createTableBlock returns the slide
GridMissingMedia ==
    /\ mediaPc = "table"
    /\ IsGraphicsGrid(mediaTableRows)
    /\ MissingMedia(mediaTableRows) # <<>>
    /\ mediaReports' = <<Head(MissingMedia(mediaTableRows))>>
    /\ mediaRendered' = Append(mediaRendered, "table")
    /\ mediaPc' = "loop"
    /\ UNCHANGED <<mediaTableRows, mediaSequence, mediaTiles>>
    /\ UNCHANGED notMedia

\* lines 2780-3137
GridRenderTiles ==
    /\ mediaPc = "table"
    /\ IsGraphicsGrid(mediaTableRows)
    /\ MissingMedia(mediaTableRows) = <<>>
    /\ mediaTiles' = GridTiles(mediaTableRows)
    /\ mediaRendered' = Append(mediaRendered, "table")
    /\ mediaPc' = "loop"
    /\ UNCHANGED <<mediaTableRows, mediaSequence, mediaReports>>
    /\ UNCHANGED notMedia

\* lines 3139-3433: the table is ruled, no media is looked up
GridRuledTable ==
    /\ mediaPc = "table"
    /\ ~IsGraphicsGrid(mediaTableRows)
    /\ mediaRendered' = Append(mediaRendered, "table")
    /\ mediaPc' = "loop"
    /\ UNCHANGED <<mediaTableRows, mediaSequence, mediaReports, mediaTiles>>
    /\ UNCHANGED notMedia

\* lines 1949-1979: the next block of the sequence
RenderFollowingBlock ==
    /\ mediaPc = "loop"
    /\ Len(mediaRendered) < BlocksToRender([sequence |-> mediaSequence])
    /\ mediaRendered' =
           Append(mediaRendered, mediaSequence[Len(mediaRendered) + 1])
    /\ UNCHANGED <<mediaTableRows, mediaSequence, mediaReports, mediaTiles,
                   mediaPc>>
    /\ UNCHANGED notMedia

\* lines 1981-1984
MediaSlideReturn ==
    /\ mediaPc = "loop"
    /\ Len(mediaRendered) = BlocksToRender([sequence |-> mediaSequence])
    /\ mediaPc' = "done"
    /\ UNCHANGED <<mediaTableRows, mediaSequence, mediaReports, mediaTiles,
                   mediaRendered>>
    /\ UNCHANGED notMedia

MediaNext ==
    \/ GridMissingMedia
    \/ GridRenderTiles
    \/ GridRuledTable
    \/ RenderFollowingBlock
    \/ MediaSlideReturn

\* ------------------------------------------------------------------------
\* createTableBlock, ruled table: filling in the cells and merging the empty
\* ones (lines 3242-3306)
\* ------------------------------------------------------------------------
\* A cell is "" or "x", any text.  gridSpan[r][c] is the span_width of the
\* cell of row r and column c, hMerge[r][c] tells that the cell is covered
\* by the merged cell that starts to its left.
SpanRows == UNION {[1..m -> {"", "x"}] : m \in 1..MaxSpanCells}

SpanTables == UNION {[1..m -> SpanRows] : m \in 1..2}

SpanInit ==
    /\ spanTableRows \in SpanTables
    /\ spanCells \in {"yes", "no", ""}
    /\ spanColumns = MaxRowLen(spanTableRows)
    /\ rowNumber = 0
    /\ columnNumber = 0
    /\ potentialAnchorCell = 0
    /\ gridSpan = [r \in 1..Len(spanTableRows) |->
                       [c \in 1..MaxRowLen(spanTableRows) |-> 1]]
    /\ hMerge = [r \in 1..Len(spanTableRows) |->
                     [c \in 1..MaxRowLen(spanTableRows) |-> FALSE]]
    /\ spanPc = "rows"

SpanIdle ==
    /\ spanTableRows = <<>>
    /\ spanCells = ""
    /\ spanColumns = 0
    /\ rowNumber = 0
    /\ columnNumber = 0
    /\ potentialAnchorCell = 0
    /\ gridSpan = <<>>
    /\ hMerge = <<>>
    /\ spanPc = "idle"

\* lines 3248-3255: the row with as many cells as the table has columns
PaddedRow(tableRow, columnCount) ==
    tableRow \o [c \in 1..(columnCount - Len(tableRow)) |-> ""]

\* _Cell.split of the table library: the cells the origin spans are single
\* cells again
SplitCell(spans, merged, origin) ==
    [gridSpan |-> [c \in 1..Len(spans) |->
                       IF c = origin THEN 1 ELSE spans[c]],
     hMerge |-> [c \in 1..Len(merged) |->
                     IF c > origin /\ c < origin + spans[origin]
                     THEN FALSE ELSE merged[c]]]

\* _Cell.merge of the table library: a range that holds a merged cell is
\* refused
ContainsMergedCell(spans, merged, origin, other) ==
    \E c \in origin..other : spans[c] > 1 \/ merged[c]

MergeCells(spans, merged, origin, other) ==
    [gridSpan |-> [c \in 1..Len(spans) |->
                       IF c = origin THEN other - origin + 1 ELSE spans[c]],
     hMerge |-> [c \in 1..Len(merged) |->
                     IF c > origin /\ c <= other THEN TRUE ELSE merged[c]]]

PotentialAnchorCellOfAnyCell(cellText, anchor, colno) == colno

\* lines 3260-3262: a cell with text is the anchor of the cells after it
PotentialAnchorCell(cellText, anchor, colno) ==
    IF cellText # "" THEN colno ELSE anchor

\* lines 3243-3255: the next row of "for rowNumber, row in enumerate"
SpanStartRow ==
    /\ spanPc = "rows"
    /\ rowNumber < Len(spanTableRows)
    /\ spanTableRows' =
           [spanTableRows EXCEPT ![rowNumber + 1] = PaddedRow(@, spanColumns)]
    /\ potentialAnchorCell' = IF spanCells = "yes" THEN 0 ELSE potentialAnchorCell
    /\ columnNumber' = 0
    /\ spanPc' = "cells"
    /\ UNCHANGED <<spanCells, spanColumns, rowNumber, gridSpan, hMerge>>
    /\ UNCHANGED notSpan

\* lines 3257-3306: one cell of "for columnNumber, cell in enumerate(row)"
SpanFillCell ==
    /\ spanPc = "cells"
    /\ columnNumber < spanColumns
    /\ LET r == rowNumber + 1
           colno == columnNumber + 1
           cellText == spanTableRows[r][colno]
           merging == spanCells = "yes" /\ cellText = ""
                      /\ potentialAnchorCell # 0
           split == IF merging /\ gridSpan[r][potentialAnchorCell] > 1
                    THEN SplitCell(gridSpan[r], hMerge[r], potentialAnchorCell)
                    ELSE [gridSpan |-> gridSpan[r], hMerge |-> hMerge[r]]
           refused == merging
                      /\ ContainsMergedCell(split.gridSpan, split.hMerge,
                                            potentialAnchorCell, colno)
           after == IF merging /\ ~refused
                    THEN MergeCells(split.gridSpan, split.hMerge,
                                    potentialAnchorCell, colno)
                    ELSE split
       IN  /\ gridSpan' = [gridSpan EXCEPT ![r] = after.gridSpan]
           /\ hMerge' = [hMerge EXCEPT ![r] = after.hMerge]
           /\ potentialAnchorCell' =
                  IF spanCells = "yes"
                  THEN PotentialAnchorCell(cellText, potentialAnchorCell, colno)
                  ELSE potentialAnchorCell
           /\ spanPc' = IF refused THEN "ValueError" ELSE "cells"
    /\ columnNumber' = columnNumber + 1
    /\ UNCHANGED <<spanTableRows, spanCells, spanColumns, rowNumber>>
    /\ UNCHANGED notSpan

\* the end of the row's cells
SpanEndRow ==
    /\ spanPc = "cells"
    /\ columnNumber = spanColumns
    /\ rowNumber' = rowNumber + 1
    /\ spanPc' = "rows"
    /\ UNCHANGED <<spanTableRows, spanCells, spanColumns, columnNumber,
                   potentialAnchorCell, gridSpan, hMerge>>
    /\ UNCHANGED notSpan

\* lines 3308-3314
SpanReturn ==
    /\ spanPc = "rows"
    /\ rowNumber = Len(spanTableRows)
    /\ spanPc' = "done"
    /\ UNCHANGED <<spanTableRows, spanCells, spanColumns, rowNumber,
                   columnNumber, potentialAnchorCell, gridSpan, hMerge>>
    /\ UNCHANGED notSpan

SpanNext == SpanStartRow \/ SpanFillCell \/ SpanEndRow \/ SpanReturn

\* ========================================================================
\* Specifications: one per subsystem, the other subsystems idle
\* ========================================================================
SplitFinished == splitPc \in {"done", "ZeroDivisionError"}

InitScale ==
    PicInit /\ SplitIdle /\ TOCIdle /\ PagesIdle /\ TableIdle
    /\ CompileIdle
    /\ DocumentIdle
    /\ NormalizeIdle
    /\ GridIdle
    /\ DeckIdle
    /\ OptionsIdle
    /\ ListIdle
    /\ MediaIdle
    /\ ShapeIdle
    /\ SpanIdle

SpecScale == InitScale /\ [][PicNext]_vars

InitSplit ==
    SplitInit /\ PicIdle /\ TOCIdle /\ PagesIdle /\ TableIdle
    /\ CompileIdle
    /\ DocumentIdle
    /\ NormalizeIdle
    /\ GridIdle
    /\ DeckIdle
    /\ OptionsIdle
    /\ ListIdle
    /\ MediaIdle
    /\ ShapeIdle
    /\ SpanIdle

SpecSplit == InitSplit /\ [][SplitNext]_vars

InitTOC ==
    TOCInit /\ PicIdle /\ SplitIdle /\ PagesIdle /\ TableIdle
    /\ CompileIdle
    /\ DocumentIdle
    /\ NormalizeIdle
    /\ GridIdle
    /\ DeckIdle
    /\ OptionsIdle
    /\ ListIdle
    /\ MediaIdle
    /\ ShapeIdle
    /\ SpanIdle

SpecTOC == InitTOC /\ [][TOCNext]_vars

InitPages ==
    PagesInit /\ PicIdle /\ SplitIdle /\ TOCIdle /\ TableIdle
    /\ CompileIdle
    /\ DocumentIdle
    /\ NormalizeIdle
    /\ GridIdle
    /\ DeckIdle
    /\ OptionsIdle
    /\ ListIdle
    /\ MediaIdle
    /\ ShapeIdle
    /\ SpanIdle

SpecPages == InitPages /\ [][PagesNext]_vars

InitTable ==
    TableInit /\ PicIdle /\ SplitIdle /\ TOCIdle /\ PagesIdle
    /\ CompileIdle
    /\ DocumentIdle
    /\ NormalizeIdle
    /\ GridIdle
    /\ DeckIdle
    /\ OptionsIdle
    /\ ListIdle
    /\ MediaIdle
    /\ ShapeInit
    /\ SpanIdle

SpecTable == InitTable /\ [][TableNext]_vars

\* pass 5 over headings, lists, tables, media and code
BlocksNext ==
    \/ ReadContentHeading
    \/ ReadBullet
    \/ ReadMedia
    \/ ReadRow
    \/ ReadBlank
    \/ ReadFence
    \/ ReadIndented
    \/ ReadText
    \/ EndOfInput

InitBlocks ==
    CompileInit /\ inHTMLCode = FALSE
    /\ PicIdle /\ SplitIdle /\ TOCIdle /\ PagesIdle /\ TableIdle
    /\ DocumentIdle
    /\ NormalizeIdle
    /\ GridIdle
    /\ DeckIdle
    /\ OptionsIdle
    /\ ListIdle
    /\ MediaIdle
    /\ ShapeIdle
    /\ SpanIdle

SpecBlocks == InitBlocks /\ [][BlocksNext]_vars

\* pass 5 over slides with cards
CardsNext ==
    \/ ReadContentHeading
    \/ ReadCardHeading
    \/ ReadBullet
    \/ ReadNumber
    \/ ReadRow
    \/ ReadMedia
    \/ ReadText
    \/ EndOfInput

InitCards ==
    CompileInit /\ inCode = FALSE /\ inHTMLCode = FALSE
    /\ PicIdle /\ SplitIdle /\ TOCIdle /\ PagesIdle /\ TableIdle
    /\ DocumentIdle
    /\ NormalizeIdle
    /\ GridIdle
    /\ DeckIdle
    /\ OptionsIdle
    /\ ListIdle
    /\ MediaIdle
    /\ ShapeIdle
    /\ SpanIdle

SpecCards == InitCards /\ [][CardsNext]_vars

\* pass 5 over slide headings of the three levels, anchors, tables and
\* fenced code
HeadingsNext ==
    \/ ReadTitleHeading
    \/ ReadSectionHeading
    \/ ReadContentHeading
    \/ ReadAnchor
    \/ ReadRow
    \/ ReadFence
    \/ EndOfInput

InitHeadings ==
    CompileInit /\ inHTMLCode = FALSE
    /\ PicIdle /\ SplitIdle /\ TOCIdle /\ PagesIdle /\ TableIdle
    /\ DocumentIdle
    /\ NormalizeIdle
    /\ GridIdle
    /\ DeckIdle
    /\ OptionsIdle
    /\ ListIdle
    /\ MediaIdle
    /\ ShapeIdle
    /\ SpanIdle

SpecHeadings == InitHeadings /\ [][HeadingsNext]_vars

InitDocument ==
    DocumentInit /\ PicIdle /\ SplitIdle /\ TOCIdle /\ PagesIdle
    /\ TableIdle /\ CompileIdle
    /\ NormalizeIdle
    /\ GridIdle
    /\ DeckIdle
    /\ OptionsIdle
    /\ ListIdle
    /\ MediaIdle
    /\ ShapeIdle
    /\ SpanIdle

SpecDocument == InitDocument /\ [][DocumentNext]_vars

InitNormalize ==
    NormalizeInit /\ PicIdle /\ SplitIdle /\ TOCIdle /\ PagesIdle
    /\ TableIdle /\ CompileIdle /\ DocumentIdle
    /\ GridIdle
    /\ DeckIdle
    /\ OptionsIdle
    /\ ListIdle
    /\ MediaIdle
    /\ ShapeIdle
    /\ SpanIdle

SpecVerbatim == InitNormalize /\ [][VerbatimNext]_vars

SpecJoin == InitNormalize /\ [][JoinNext]_vars

SpecDefinitions == InitNormalize /\ [][DefinitionsNext]_vars

InitGrid ==
    GridInit /\ PicIdle /\ SplitIdle /\ TOCIdle /\ PagesIdle
    /\ TableIdle /\ CompileIdle /\ DocumentIdle /\ NormalizeIdle
    /\ DeckIdle
    /\ OptionsIdle
    /\ ListIdle
    /\ MediaIdle
    /\ ShapeIdle
    /\ SpanIdle

SpecGrid == InitGrid /\ [][GridNext]_vars

InitDeck ==
    DeckInit /\ PicIdle /\ SplitIdle /\ PagesIdle /\ TableIdle
    /\ CompileIdle /\ DocumentIdle /\ NormalizeIdle /\ GridIdle
    /\ OptionsIdle
    /\ ListIdle
    /\ MediaIdle
    /\ ShapeIdle
    /\ SpanIdle

SpecDeck == InitDeck /\ [][DeckNext]_vars

InitOptions ==
    OptionsInit /\ PicIdle /\ SplitIdle /\ TOCIdle /\ PagesIdle
    /\ TableIdle /\ CompileIdle /\ DocumentIdle /\ NormalizeIdle
    /\ GridIdle /\ DeckIdle
    /\ ListIdle
    /\ MediaIdle
    /\ ShapeIdle
    /\ SpanIdle

SpecOptions == InitOptions /\ [][OptionsNext]_vars

InitList ==
    ListInit /\ PicIdle /\ SplitIdle /\ TOCIdle /\ PagesIdle
    /\ TableIdle /\ CompileIdle /\ DocumentIdle /\ NormalizeIdle
    /\ GridIdle /\ DeckIdle /\ OptionsIdle
    /\ MediaIdle
    /\ ShapeIdle
    /\ SpanIdle

SpecList == InitList /\ [][ListNext]_vars

InitMedia ==
    MediaInit /\ PicIdle /\ SplitIdle /\ TOCIdle /\ PagesIdle
    /\ TableIdle /\ CompileIdle /\ DocumentIdle /\ NormalizeIdle
    /\ GridIdle /\ DeckIdle /\ OptionsIdle
    /\ ListIdle
    /\ ShapeIdle
    /\ SpanIdle

SpecMedia == InitMedia /\ [][MediaNext]_vars

InitSpan ==
    SpanInit /\ PicIdle /\ SplitIdle /\ TOCIdle /\ PagesIdle
    /\ TableIdle /\ CompileIdle /\ DocumentIdle /\ NormalizeIdle
    /\ GridIdle /\ DeckIdle /\ OptionsIdle /\ ListIdle /\ MediaIdle
    /\ ShapeIdle

SpecSpan == InitSpan /\ [][SpanNext]_vars

CaptionsNext ==
    \/ ReadContentHeading
    \/ ReadRow
    \/ ReadCaption
    \/ ReadText
    \/ ReadBlank
    \/ EndOfInput

InitCaptions ==
    CompileInit /\ inCode = FALSE /\ inHTMLCode = FALSE
    /\ PicIdle /\ SplitIdle /\ TOCIdle /\ PagesIdle /\ TableIdle
    /\ DocumentIdle /\ NormalizeIdle /\ GridIdle /\ DeckIdle
    /\ OptionsIdle /\ ListIdle /\ MediaIdle /\ ShapeIdle /\ SpanIdle

SpecCaptions == InitCaptions /\ [][CaptionsNext]_vars

TitlesNext ==
    \/ ReadTitleHeading
    \/ ReadSectionHeading
    \/ ReadContentHeading
    \/ ReadRule
    \/ ReadText
    \/ ReadBlank
    \/ ReadBullet
    \/ EndOfInput

InitTitles ==
    CompileInit /\ inCode = FALSE /\ inHTMLCode = FALSE
    /\ PicIdle /\ SplitIdle /\ TOCIdle /\ PagesIdle /\ TableIdle
    /\ DocumentIdle /\ NormalizeIdle /\ GridIdle /\ DeckIdle
    /\ OptionsIdle /\ ListIdle /\ MediaIdle /\ ShapeIdle /\ SpanIdle

SpecTitles == InitTitles /\ [][TitlesNext]_vars

\* input with comments, directives, headings and text
CommentKinds ==
    {"blank", "text", "content", "comment", "commentOpen", "commentClose",
     "directive"}

InputCommentLine == InputLine(CommentKinds)

CommentsNext == InputCommentLine \/ RunPasses

SpecComments == InitNormalize /\ [][CommentsNext]_vars

\* an anchor line whose name no heading uses
ReadOtherAnchor == ReadLine(Line("anchor", 0, <<"b">>))

ReferencesNext ==
    \/ ReadSectionHeading
    \/ ReadContentHeading
    \/ ReadCardHeading
    \/ ReadOtherAnchor
    \/ ReadBullet
    \/ ReadText
    \/ EndOfInput

InitReferences ==
    CompileInit /\ inCode = FALSE /\ inHTMLCode = FALSE
    /\ PicIdle /\ SplitIdle /\ TOCIdle /\ PagesIdle /\ TableIdle
    /\ DocumentIdle /\ NormalizeIdle /\ GridIdle /\ DeckIdle
    /\ OptionsIdle /\ ListIdle /\ MediaIdle /\ ShapeIdle /\ SpanIdle

SpecReferences == InitReferences /\ [][ReferencesNext]_vars

\* ========================================================================
\* Properties
\* ========================================================================
\* C2: the scaled picture fits the box, touches the box in at least one
\* dimension, and is scaled by height exactly when
\* maxPicWidth * imageHeight / imageWidth > maxPicHeight.
ScaleFitsAndTouches ==
    picResult.called =>
        /\ FracLe(picResult.picWidth, FracInt(maxPicWidth))
        /\ FracLe(picResult.picHeight, FracInt(maxPicHeight))
        /\ \/ FracEq(picResult.picWidth, FracInt(maxPicWidth))
           \/ FracEq(picResult.picHeight, FracInt(maxPicHeight))
        /\ picResult.usingHeightToScale
               <=> (maxPicWidth * imageHeight > maxPicHeight * imageWidth)
        /\ picResult.usingHeightToScale
               => FracEq(picResult.picHeight, FracInt(maxPicHeight))
        /\ ~ picResult.usingHeightToScale
               => FracEq(picResult.picWidth, FracInt(maxPicWidth))

ScaleFitsAndTouchesWitness ==
    /\ picResult.called
    /\ picResult.usingHeightToScale
    /\ ~ FracEq(picResult.picWidth, FracInt(maxPicWidth))

\* C3 as stated: exactly one of picWidth == maxPicWidth and
\* picHeight == maxPicHeight holds (never both, never neither).
ScaleExactlyOneTouches ==
    picResult.called =>
        (FracEq(picResult.picWidth, FracInt(maxPicWidth))
            <=> ~ FracEq(picResult.picHeight, FracInt(maxPicHeight)))

\* C3 amended: at least one of the two equalities holds, and both hold
\* exactly when the picture has the box's aspect ratio
\* (maxPicWidth * imageHeight == maxPicHeight * imageWidth).
ScaleBothTouchIffSameAspect ==
    picResult.called =>
        LET touchesWidth == FracEq(picResult.picWidth, FracInt(maxPicWidth))
            touchesHeight == FracEq(picResult.picHeight, FracInt(maxPicHeight))
        IN  /\ touchesWidth \/ touchesHeight
            /\ (touchesWidth /\ touchesHeight)
                   <=> (maxPicWidth * imageHeight = maxPicHeight * imageWidth)

ScaleBothTouchWitness ==
    /\ picResult.called
    /\ FracEq(picResult.picWidth, FracInt(maxPicWidth))
    /\ FracEq(picResult.picHeight, FracInt(maxPicHeight))
    /\ imageWidth # imageHeight

\* C4 as stated: contentSplit [1,1], two blocks, contentSplitDirection
\* 'vertical', content region 300 wide: each block is 150 wide.
VerticalSplitHalvesWidth ==
    (/\ splitPc = "done"
     /\ Len(slideInfoSequence) = 2
     /\ contentSplit[1] = 1 /\ contentSplit[2] = 1
     /\ contentSplitDirection = "vertical"
     /\ contentWidth = 300)
    => /\ Len(renderingRectangles) = 2
       /\ renderingRectangles[1].width = 150
       /\ renderingRectangles[2].width = 150

\* C4 amended: with contentSplit [1,1] and two blocks, direction 'horizontal'
\* over a 300-wide region gives two 150-wide blocks side by side; direction
\* 'vertical' gives both blocks the full width and divides a 300-high
\* region into two 150-high blocks, one below the other.
EqualSplitHalvesSplitAxis ==
    (/\ splitPc = "done"
     /\ Len(slideInfoSequence) = 2
     /\ contentSplit[1] = 1 /\ contentSplit[2] = 1)
    => /\ Len(renderingRectangles) = 2
       /\ (contentSplitDirection = "horizontal" /\ contentWidth = 300) =>
              \A i \in 1..2 :
                  /\ renderingRectangles[i].width = 150
                  /\ renderingRectangles[i].height = contentHeight
                  /\ renderingRectangles[i].left = contentLeft + 150 * (i - 1)
                  /\ renderingRectangles[i].top = contentTop
       /\ (contentSplitDirection = "vertical") =>
              \A i \in 1..2 :
                  /\ renderingRectangles[i].width = contentWidth
                  /\ renderingRectangles[i].left = contentLeft
                  /\ contentHeight = 300 =>
                         /\ renderingRectangles[i].height = 150
                         /\ renderingRectangles[i].top = contentTop + 150 * (i - 1)

EqualSplitWitness ==
    /\ splitPc = "done"
    /\ Len(slideInfoSequence) = 2
    /\ contentSplit[1] = 1 /\ contentSplit[2] = 1
    /\ contentSplitDirection = "horizontal"
    /\ contentWidth = 300
    /\ Len(renderingRectangles) = 2

\* C5: a slide with exactly one block gives that block the whole content
\* rectangle, for every contentSplit weight vector and either direction.
SingleBlockGetsWholeRectangle ==
    (SplitFinished /\ Len(slideInfoSequence) = 1)
    => renderingRectangles =
           <<Rectangle(contentTop, contentLeft, contentHeight, contentWidth)>>

\* the grid position the entries-per-row formula gives to entry k (from 1)
GridX(k) ==
    FracAdd(TOCleft, FracMul(FracInt((k - 1) % TOCEntriesPerRow), Pitch(width, entryGap)))

GridY(k) ==
    FracAdd(TOCtop, FracMul(FracInt((k - 1) \div TOCEntriesPerRow), FracInt(height + rowGap)))

TOCRowsOccupied == Cardinality({tocShapes[k].y : k \in 1..Len(tocShapes)})

\* C6: entriesPerRow = floor(availableWidth / (itemWidth + gap)); entry k is
\* placed in row floor((k-1)/entriesPerRow) at column (k-1) mod entriesPerRow,
\* and the cursor is reset to the row start, one row lower, exactly after
\* every entriesPerRow-th entry.  7 entries of width 100 with gap 10 in an
\* available width of 330: 3 per row, wraps after entries 3 and 6, 3 rows.
TOCGridPlacement ==
    /\ tocPc \in {"measured", "place", "done"} =>
           LET available == slide_width - 2 * marginBase
               pitch == Pitch(width, entryGap)
           IN  /\ TOCEntriesPerRow * pitch[1] <= available * pitch[2]
               /\ (TOCEntriesPerRow + 1) * pitch[1] > available * pitch[2]
    /\ tocPc \in {"place", "done"} =>
           /\ \A k \in 1..Len(tocShapes) :
                  /\ tocShapes[k].entry = TOCEntries[k]
                  /\ FracEq(tocShapes[k].x, GridX(k))
                  /\ FracEq(tocShapes[k].y, GridY(k))
           /\ FracEq(x, GridX(Len(tocShapes) + 1))
           /\ FracEq(y, GridY(Len(tocShapes) + 1))
           /\ tocPc = "done" => Len(tocShapes) = Len(TOCEntries)
    /\ (/\ tocPc = "done"
        /\ Len(TOCEntries) = 7
        /\ width = FracInt(100) /\ entryGap = 10
        /\ slide_width - 2 * marginBase = 330) =>
           /\ TOCEntriesPerRow = 3
           /\ TOCRowsOccupied = 3
           /\ \A k \in 1..7 : FracEq(tocShapes[k].x, TOCleft) <=> k \in {1, 4, 7}
           /\ \A k \in 1..6 :
                  IF k \in {3, 6}
                  THEN FracEq(tocShapes[k + 1].y,
                              FracAdd(tocShapes[k].y, FracInt(height + rowGap)))
                  ELSE FracEq(tocShapes[k + 1].y, tocShapes[k].y)

TOCGridWitness ==
    /\ tocPc = "done"
    /\ Len(TOCEntries) = 7
    /\ width = FracInt(100) /\ entryGap = 10
    /\ slide_width - 2 * marginBase = 330
    /\ Len(tocShapes) = 7
    /\ TOCRowsOccupied = 3

\* C7: the row count used to size and centre the TOC grid equals
\* ceil(entryCount / entriesPerRow), the number of rows the placement loop
\* occupies.
TOCRowCountIsCeiling ==
    tocPc \in {"place", "done"} =>
        /\ FracEq(rowCount,
                  FracInt((Len(TOCEntries) + TOCEntriesPerRow - 1) \div TOCEntriesPerRow))
        /\ (tocPc = "done" /\ Len(TOCEntries) > 0) =>
               FracEq(rowCount, FracInt(TOCRowsOccupied))

\* the items a page holds: its bullets, or its table rows below the heading
\* and alignment rows, each named by footnote number, term or task text
ItemsOfPage(page) ==
    IF pgKind = "footnotes"
    THEN [i \in 1..Len(page.rows) |-> page.rows[i][2]]
    ELSE IF pgKind = "glossary"
    THEN [i \in 1..(Len(page.rows) - 2) |-> page.rows[i + 2][1]]
    ELSE [i \in 1..(Len(page.rows) - 2) |-> page.rows[i + 2][2]]

RECURSIVE ItemsOfPages(_)
ItemsOfPages(pages) ==
    IF pages = <<>> THEN <<>> ELSE ItemsOfPage(Head(pages)) \o ItemsOfPages(Tail(pages))

ExpectedItemOrder ==
    IF pgKind = "glossary" THEN Sorted(pgItems) ELSE [i \in 1..Len(pgItems) |-> i]

\* C8: N >= 1 items at page size P >= 1 give exactly ceil(N/P) pages, the
\* items in input order (glossary: sorted term order), every page but the
\* last holding exactly P items and the last between 1 and P.
PaginationPages ==
    pgPc = "done" =>
        LET N == Len(pgItems)
            pages == Len(pagesEmitted)
        IN  /\ pages = (N + perPage - 1) \div perPage
            /\ ItemsOfPages(pagesEmitted) = ExpectedItemOrder
            /\ \A p \in 1..(pages - 1) : Len(ItemsOfPage(pagesEmitted[p])) = perPage
            /\ Len(ItemsOfPage(pagesEmitted[pages])) \in 1..perPage

PaginationWitness ==
    /\ pgPc = "done"
    /\ pgKind = "glossary"
    /\ Len(pagesEmitted) = 2
    /\ perPage = 2
    /\ Len(pgItems) = 3
    /\ Sorted(pgItems) # pgItems

\* a token of the alignment row: dashes with an optional colon at either end
IsAlignmentToken(cell) ==
    /\ CountChar(cell, "-") >= 1
    /\ \A i \in 1..Len(cell) :
           \/ cell[i] = "-"
           \/ cell[i] = ":" /\ i \in {1, Len(cell)}

IsAlignmentRow(row) == row # <<>> /\ \A c \in 1..Len(row) : IsAlignmentToken(row[c])

\* C10: in a ruled table the second row is the alignment row if and only if
\* it is composed solely of '-', ':-', '-:' style tokens; it is then removed
\* from the data rows, and a column is centred if its token starts with ':-'
\* and ends with '-:', right-aligned if it only ends with '-:', left-aligned
\* otherwise.  |:-|-:| over two columns: column 1 left, column 2 right.
AlignmentRowIffDashTokens ==
    tblPc = "aligned" =>
        /\ haveTableHeading <=> (Len(inputGrid) > 1 /\ IsAlignmentRow(inputGrid[2]))
        /\ haveTableHeading =>
               /\ rows = Len(inputGrid) - 1
               /\ tableGrid = <<inputGrid[1]>> \o SubSeq(inputGrid, 3, Len(inputGrid))
               /\ \A c \in 1..Len(inputGrid[2]) :
                      alignments[c] =
                          IF StartsWith(inputGrid[2][c], <<":", "-">>)
                             /\ EndsWith(inputGrid[2][c], <<"-", ":">>) THEN "c"
                          ELSE IF EndsWith(inputGrid[2][c], <<"-", ":">>) THEN "r"
                          ELSE "l"
        /\ ~ haveTableHeading => rows = Len(inputGrid) /\ tableGrid = inputGrid
        /\ (Len(inputGrid) > 1 /\ inputGrid[2] = <<<<":", "-">>, <<"-", ":">>>>) =>
               /\ alignments[1] = "l"
               /\ alignments[2] = "r"

\* ------------------------------------------------------------------------
\* C1: every SlideInfo handed to createSlide has as many "table" tags in
\* its sequence as grids in tableRows and as many "code" tags as blocks in
\* code, so that the k-th tag of a kind finds the k-th block of that kind.
\* ------------------------------------------------------------------------
TagsMatchBlocks(info) ==
    /\ CountTag(info.sequence, "table", Len(info.sequence))
           = Len(info.tableRows)
    /\ CountTag(info.sequence, "code", Len(info.sequence)) = Len(info.code)

EmittedSequenceMatchesBlocks ==
    \A i \in 1..Len(slides) : TagsMatchBlocks(slides[i])

\* ------------------------------------------------------------------------
\* C9: a bulleted or numbered line read while a card is open grows the
\* bullets of the last card by that one bullet and changes neither the
\* slide's bullets nor any earlier card; read with no card open, it
\* changes no card.
\* ------------------------------------------------------------------------
ListLineRead ==
    /\ lineNumber' = lineNumber + 1
    /\ lineRead'.kind \in {"bullet", "indentedBullet", "number"}
    /\ raised' = ""

BulletOf(line, n) ==
    <<line.level, n, IF line.kind = "number" THEN "numbered" ELSE "bulleted">>

CardBulletsFrame ==
    [][ListLineRead =>
          /\ Len(cards') = Len(cards)
          /\ \A i \in 1..(Len(cards) - 1) : cards'[i] = cards[i]
          /\ inCard =>
                /\ cards'[Len(cards)].bullets =
                       Append(cards[Len(cards)].bullets,
                              BulletOf(lineRead', lineNumber))
                /\ cards'[Len(cards)].title = cards[Len(cards)].title
                /\ bullets' = bullets
          /\ ~ inCard => cards' = cards]_vars

\* two cards on one slide, each with a bullet of its own
CardBulletsWitness ==
    /\ inCard
    /\ Len(cards) = 2
    /\ Len(cards[1].bullets) = 1
    /\ Len(cards[2].bullets) = 1
    /\ cards[1].bullets # cards[2].bullets
    /\ bullets = <<>>

\* ------------------------------------------------------------------------
\* C11: a heading of title, section or content level read outside code
\* hands the open slide, if there is one, to createSlide and opens a slide
\* of the heading's block type; the slides are emitted in the order of
\* their headings, one for each heading by the end of the input.
\* ------------------------------------------------------------------------
BlockTypeOfLevel(level) ==
    IF level = titleLevel THEN "title"
    ELSE IF level = sectionLevel THEN "section"
    ELSE "content"

SlideHeadingRead ==
    /\ lineNumber' = lineNumber + 1
    /\ Len(slideHeadings') = Len(slideHeadings) + 1

\* what a slide heading does when it is read
HeadingClosesAndOpens ==
    SlideHeadingRead =>
        /\ Len(slides') = Len(slides) + (IF inBlock THEN 1 ELSE 0)
        /\ inBlock => slides'[Len(slides')].titleText = slideTitle
        /\ raised' = "" =>
              /\ inBlock'
              /\ slideTitle' = <<lineNumber>>
              /\ blockType' = BlockTypeOfLevel(lineRead'.level)

\* no other line emits a slide
OnlyHeadingsEmit ==
    (lineNumber' = lineNumber + 1 /\ slideHeadings' = slideHeadings)
        => slides' = slides

\* the i-th slide emitted is the one the i-th heading opened
EmittedInHeadingOrder ==
    \A i \in 1..Min(Len(slides), Len(slideHeadings)) :
        slides[i].titleText = <<slideHeadings[i]>>

\* the claim as worded: as many slides as headings at the end of the input
EmittedCountIsHeadingCount ==
    (compilePc = "done" /\ raised = "")
        => Len(slides) = Len(slideHeadings)

EmittedCountWithHeadless ==
    (compilePc = "done" /\ raised = "")
        => Len(slides) =
               IF slideHeadings # <<>> THEN Len(slideHeadings)
               ELSE IF inCode \/ inTable THEN 1 ELSE 0

SlideSpecs(run) ==
    [i \in 1..Len(run.slides) |->
        [titleText |-> run.slides[i].titleText,
         blockType |-> run.slides[i].blockType,
         bullets |-> run.slides[i].bullets,
         tableRows |-> run.slides[i].tableRows,
         cards |-> run.slides[i].cards,
         sequence |-> run.slides[i].sequence]]

EndsInOpenFence(doc) == FenceCount(doc) % 2 = 1

UnterminatedFenceClosedImplicitly ==
    (documentPc = "compiled" /\ EndsInOpenFence(document))
        => /\ compiledAsIs.raised = compiledClosed.raised
           /\ SlideSpecs(compiledAsIs) = SlideSpecs(compiledClosed)

\* ------------------------------------------------------------------------
\* C13: every input line between an opening fence ("```", "<pre>",
\* "<code>") and its closing fence is, after passes 1 to 4, a line of its
\* own with its own text, and these lines keep their order.
\* ------------------------------------------------------------------------
\* where a reader of the input is after line i: "out", "fence" or "pre"
RECURSIVE FenceModeAfter(_, _)
FenceModeAfter(input, i) ==
    IF i = 0 THEN "out"
    ELSE LET before == FenceModeAfter(input, i - 1)
             kind == input[i]
         IN  IF before = "out"
             THEN IF kind = "fence" THEN "fence"
                  ELSE IF kind = "pre" THEN "pre" ELSE "out"
             ELSE IF before = "fence"
             THEN IF kind = "fence" THEN "out" ELSE "fence"
             ELSE IF kind = "endpre" THEN "out" ELSE "pre"

\* line i lies between an opening fence and its closing fence
InFencedExtent(input, i) ==
    /\ FenceModeAfter(input, i - 1) # "out"
    /\ FenceModeAfter(input, i) # "out"
    /\ \E j \in (i + 1)..Len(input) : FenceModeAfter(input, j) = "out"

\* input line i is line j of the stream, alone and as it was
ReachesAs(input, lines, i, j) ==
    lines[j] = StreamLine(input[i], <<i - 1>>)

FencedLinesReachMainPass ==
    normalizePc \in {"pass5", "compiled"} =>
        \A i \in 1..Len(input_file) :
            InFencedExtent(input_file, i) =>
                \E j \in 1..Len(linesAfterConcatenation) :
                    /\ ReachesAs(input_file, linesAfterConcatenation, i, j)
                    /\ \A i2 \in (i + 1)..Len(input_file),
                          j2 \in 1..Len(linesAfterConcatenation) :
                           (InFencedExtent(input_file, i2)
                            /\ ReachesAs(input_file, linesAfterConcatenation,
                                         i2, j2))
                               => j < j2

\* ------------------------------------------------------------------------
\* C14: in pass 2, outside code, a non-blank line is joined to the previous
\* output line exactly when it does not start a block (heading, bullet,
\* numbered item, table row, media) and the line before it is neither
\* blank nor a heading, a table row or a code line; a text line after a
\* heading of any level is never joined to the heading.
\* ------------------------------------------------------------------------
KindsOf(lines) == [i \in 1..Len(lines) |-> lines[i].kind]

IsHeadingKind(kind) == kind \in {"title", "section", "content", "card"}

IsCodeKind(kind) == kind \in {"indented", "fence", "pre", "endpre"}

StartsNewBlock(kind) ==
    IsHeadingKind(kind) \/ kind \in {"bullet", "number", "row", "media"}

OutsideCode(kinds, i) ==
    /\ FenceModeAfter(kinds, i - 1) = "out"
    /\ ~ IsCodeKind(kinds[i])

\* the claim's condition for line i to continue the line before it
ContinuesPredecessor(kinds, i) ==
    /\ ~ StartsNewBlock(kinds[i])
    /\ i > 1
    /\ kinds[i - 1] # "blank"
    /\ ~ IsHeadingKind(kinds[i - 1])
    /\ kinds[i - 1] # "row"
    /\ ~ IsCodeKind(kinds[i - 1])

\* line i of the input of pass 2 is a later part of a line of its output
JoinedToPrevious(i) ==
    \E j \in 1..Len(linesAfterConcatenation) :
        \E k \in 2..Len(linesAfterConcatenation[j].parts) :
            linesAfterConcatenation[j].parts[k]
                = afterMetadataAndHTML[i].parts[1]

JoinIffContinuation ==
    normalizePc = "pass3" =>
        \A i \in 1..Len(afterMetadataAndHTML) :
            LET kinds == KindsOf(afterMetadataAndHTML)
            IN  (OutsideCode(kinds, i) /\ kinds[i] # "blank")
                    => (JoinedToPrevious(i) <=> ContinuesPredecessor(kinds, i))

\* ------------------------------------------------------------------------
\* C16: passes 3 and 4 put the sentinel in the place of every definition
\* line and leave every other line where it was; the definitions are
\* recorded in their order, each in one registry only; pass 5 skips the
\* sentinel lines.
\* ------------------------------------------------------------------------
\* the lines of pass 2's output, as they stand after pass 2 (passes 3 and
\* 4 do not change afterMetadataAndHTML)
AfterPass2 == Pass2Lines(Pass2Start, afterMetadataAndHTML).linesAfterConcatenation

IsDefinition(line) == line.kind \in {"footnoteDef", "referenceDef"}

\* how many entries of the two registries come from the line
TimesRecorded(line) ==
    LET recorded == footnoteDefinitions \o indirectAnchors
    IN  Cardinality({k \in 1..Len(recorded) : recorded[k] = line})

\* pass 5 over the lines with the sentinel lines left out of the loop
RECURSIVE Pass5Skipping(_, _, _)
Pass5Skipping(s, doc, i) ==
    IF i > Len(doc) \/ s.raised # "" THEN s
    ELSE IF doc[i].kind = "ignoreme" THEN Pass5Skipping(s, doc, i + 1)
    ELSE Pass5Skipping(LoopBody(s, doc[i], i - 1), doc, i + 1)

CompiledSkipping(lines, flags) ==
    LET start == [StartState EXCEPT !.inCode = flags.inCode,
                                    !.inHTMLCode = flags.inHTMLCode]
        read == Pass5Skipping(start, Pass5Lines(lines), 1)
    IN  Then(read, FinishLastSlide(read))

DefinitionsBecomeSentinels ==
    normalizePc \in {"pass5", "compiled"} =>
        /\ Len(linesAfterConcatenation) = Len(AfterPass2)
        /\ \A i \in 1..Len(AfterPass2) :
              linesAfterConcatenation[i] =
                  IF IsDefinition(AfterPass2[i]) THEN Sentinel
                  ELSE AfterPass2[i]
        /\ \A i \in 1..Len(AfterPass2) :
              IsDefinition(AfterPass2[i]) =>
                  TimesRecorded(AfterPass2[i]) = 1
        /\ footnoteDefinitions =
              SelectSeq(AfterPass2, LAMBDA l : l.kind = "footnoteDef")
        /\ indirectAnchors =
              SelectSeq(AfterPass2, LAMBDA l : l.kind = "referenceDef")
        /\ normalizePc = "compiled" =>
              compiledLines =
                  CompiledSkipping(linesAfterConcatenation, codeFlags)

\* a slide with a footnote definition below it, compiled
DefinitionsWitness ==
    /\ normalizePc = "compiled"
    /\ Len(footnoteDefinitions) = 1
    /\ \E i \in 1..Len(linesAfterConcatenation) :
          linesAfterConcatenation[i] = Sentinel
    /\ compiledLines.raised = ""
    /\ Len(compiledLines.slides) = 1

\* ------------------------------------------------------------------------
\* C15: a grid is taken as a graphics grid exactly when it has at most two
\* rows, at most two columns and only media cells; a grid with a cell that
\* is no media reference is laid out as a ruled table.
\* ------------------------------------------------------------------------
AllCellsMedia(grid) ==
    \A r \in 1..Len(grid) : \A c \in 1..Len(grid[r]) : grid[r][c] = "media"

AtMostTwoByTwo(grid) ==
    Len(grid) <= 2 /\ \A r \in 1..Len(grid) : Len(grid[r]) <= 2

GraphicsGridIffAllMedia ==
    gridPc = "classified" =>
        (isGraphicsGrid <=>
            (AtMostTwoByTwo(gridTableRows) /\ AllCellsMedia(gridTableRows)))

\* C17: laying out the same slide under the same resolved options gives
\* the same geometry whichever slides were laid out before it: any two
\* TOC-style slides of a run that have the same bullets get the same
\* shapes at the same positions.
LaidOutSoFar ==
    IF tocPc = "done"
    THEN Append(laidOut, [bullets |-> tocBullets, shapes |-> tocShapes])
    ELSE laidOut

SameSlideSameGeometry ==
    \A i \in DOMAIN LaidOutSoFar : \A j \in DOMAIN LaidOutSoFar :
        LaidOutSoFar[i].bullets = LaidOutSoFar[j].bullets
            => LaidOutSoFar[i].shapes = LaidOutSoFar[j].shapes

\* C18: the heading-reference registry only grows during compilation: a
\* reference once mapped to a slide number keeps that number in every
\* later state, whatever line is read next.
HrefMappingKept ==
    \A reference \in DOMAIN slideHrefs :
        /\ reference \in DOMAIN slideHrefs'
        /\ slideHrefs'[reference] = slideHrefs[reference]

HeadingReferencesOnlyGrow == [][HrefMappingKept]_vars

\* C19: every malformed line of the metadata block (one that is not a
\* "name: value" pair, or gives a numeric option a value that is no
\* number) is reported and skipped: no option changes and the reading of
\* the metadata goes on.
MetadataLineRead ==
    /\ optionLines' = optionLines + 1
    /\ optionLine'.from = "metadata"

Malformed(line) ==
    \/ ~ line.matches
    \/ line.name = "pagetitlesize" /\ line.value # "24"

MalformedLineSkipped ==
    MetadataLineRead /\ Malformed(optionLine')
        => /\ processingOptions' = processingOptions
           /\ Len(optionReports') = Len(optionReports) + 1
           /\ optionPc' = "metadata"

MalformedMetadataReportedAndSkipped == [][MalformedLineSkipped]_vars

\* C20: for every enumerated option a value outside the allowed set, in a
\* metadata line or in a dynamic directive, is reported and the option's
\* current value stays what it was.
EnumeratedOptions == OptionNames \ {"pagetitlesize"}

AllowedValues(name) ==
    CASE name = "cardlayout" -> {"horizontal", "vertical"}
      [] name = "cardshape" -> {"squared", "rounded", "line"}
      [] name = "cardtitleposition" -> {"above", "inside", "before", "after"}
      [] name = "tocstyle" -> {"chevron", "circle", "plain"}
      [] name = "pagetitlealign" ->
            {"left", "right", "center", "centre", "l", "r", "c"}
      [] name = "contentsplitdirection" ->
            {"vertical", "horizontal", "v", "h"}
      [] name = "transition" -> TransitionNames

OutsideAllowedSet(line) ==
    /\ line.matches
    /\ line.name \in EnumeratedOptions
    /\ line.value \notin AllowedValues(line.name)
    /\ line.from = "directive" => line.value \notin DirectiveKeywords

InvalidValueLeavesOption ==
    optionLines' = optionLines + 1 /\ OutsideAllowedSet(optionLine')
        => /\ GetCurrentOption(processingOptions', optionLine'.name)
                = GetCurrentOption(processingOptions, optionLine'.name)
           /\ Len(optionReports') = Len(optionReports) + 1

InvalidEnumeratedValueRejected == [][InvalidValueLeavesOption]_vars

\* ------------------------------------------------------------------------
\* C23: a heading of card level read outside code appends exactly one card
\* with no bullets and no graphic, sets inCard, emits no slide and leaves
\* the slide's title, bullets, tables, code and sequence as they were.
\* ------------------------------------------------------------------------
CardHeadingRead ==
    /\ lineNumber' = lineNumber + 1
    /\ lineRead'.kind = "heading"
    /\ lineRead'.level >= cardLevel
    /\ ~ inCode /\ ~ inHTMLCode /\ ~ inFencedCode

CardHeadingAppendsCard ==
    CardHeadingRead =>
        /\ raised' = ""
        /\ cards' = Append(cards, [title |-> lineNumber, bullets |-> <<>>,
                                   graphic |-> <<>>])
        /\ inCard'
        /\ slides' = slides
        /\ slideTitle' = slideTitle
        /\ bullets' = bullets
        /\ tableRows' = tableRows
        /\ code' = code
        /\ sequence' = sequence

CardHeadingOpensCard == [][CardHeadingAppendsCard]_vars

\* ------------------------------------------------------------------------
\* C22: a slide whose sequence is empty is laid out with the title-only
\* layout and gets no rendering rectangle.
\* ------------------------------------------------------------------------
IsContentSlide(info) == info.blockType \in {"content", "code", "table"}

EmptySequenceIsTitleOnly ==
    \A i \in DOMAIN slides :
        IsContentSlide(slides[i]) /\ slides[i].sequence = <<>>
            => /\ SlideLayout(slides[i]) = "titleOnlyLayout"
               /\ BlocksToRender(slides[i]) = 0

\* ------------------------------------------------------------------------
\* C24: createContentSlide renders the first min(maxBlocks, len(sequence))
\* blocks in order; block b gets floor(extent * weight_b / sum of the
\* rendered weights) along the split axis and the full extent along the
\* other; each block starts where the previous one ends, and the extents
\* along the split axis sum to at most the content extent.
\* ------------------------------------------------------------------------
Floor(n, d) == IF d > 0 THEN n \div d ELSE (-n) \div (-d)

SplitExtent == IF contentSplitDirection = "vertical" THEN contentHeight
               ELSE contentWidth

RenderedCount == Min(maxBlocks, Len(slideInfoSequence))

RenderedWeight == SumFirst(contentSplit, RenderedCount)

\* where block i starts along the split axis, given the blocks before it
BlockStart(i) ==
    IF i = 1
    THEN IF contentSplitDirection = "vertical" THEN contentTop ELSE contentLeft
    ELSE IF contentSplitDirection = "vertical"
         THEN renderingRectangles[i - 1].top + renderingRectangles[i - 1].height
         ELSE renderingRectangles[i - 1].left + renderingRectangles[i - 1].width

RECURSIVE ExtentsUpTo(_)
ExtentsUpTo(i) ==
    IF i = 0 THEN 0
    ELSE ExtentsUpTo(i - 1) +
         (IF contentSplitDirection = "vertical"
          THEN renderingRectangles[i].height
          ELSE renderingRectangles[i].width)

BlocksTileContent ==
    SplitFinished =>
        /\ Len(renderingRectangles) = RenderedCount
        /\ \A i \in 1..RenderedCount :
              /\ RenderedWeight # 0
              /\ renderingRectangles[i] =
                    LET extent == Floor(SplitExtent * contentSplit[i],
                                        RenderedWeight)
                    IN  IF contentSplitDirection = "vertical"
                        THEN Rectangle(BlockStart(i), contentLeft,
                                       extent, contentWidth)
                        ELSE Rectangle(contentTop, BlockStart(i),
                                       contentHeight, extent)
              /\ renderingRectangles[i].height >= 0
              /\ renderingRectangles[i].width >= 0
        /\ ExtentsUpTo(RenderedCount) <= SplitExtent

\* ------------------------------------------------------------------------
\* C25: in a list block of height H, with bullets and cards the bullets get
\* floor(H * (100 - cardPercent) / 100) and the cards the rest, starting
\* where the bullets end; with cards and no bullets the cards get H and the
\* bullets 0; with no cards the bullets get H.
\* ------------------------------------------------------------------------
ListRegionsApportioned ==
    listPc = "done" =>
        LET H == renderingRectangle.height
        IN  /\ (cardCount > 0 /\ bulletCount > 0) =>
                  /\ bulletsShapeHeight * 100 * cardPercent[2]
                        <= H * (100 * cardPercent[2] - cardPercent[1])
                  /\ (bulletsShapeHeight + 1) * 100 * cardPercent[2]
                        > H * (100 * cardPercent[2] - cardPercent[1])
                  /\ bulletsShapeHeight + cardAreaHeight = H
                  /\ cardAreaTop = renderingRectangle.top + bulletsShapeHeight
            /\ (cardCount > 0 /\ bulletCount = 0) =>
                  /\ cardAreaHeight = H
                  /\ bulletsShapeHeight = 0
                  /\ cardAreaTop = renderingRectangle.top
            /\ cardCount = 0 => bulletsShapeHeight = H

\* a block 301 high with bullets and cards at 33.5 percent: 200 and 101
ListRegionsWitness ==
    /\ listPc = "done"
    /\ renderingRectangle.height = 301
    /\ cardPercent = Frac(67, 2)
    /\ bulletCount > 0 /\ cardCount = 2
    /\ bulletsShapeHeight = 200
    /\ cardAreaHeight = 101

\* ------------------------------------------------------------------------
\* C26: n >= 1 cards laid out horizontally all have the width
\* floor((W - gap * (n - 1)) / n) and lie gap apart; laid out vertically
\* they all have the same height and the same pitch; in both layouts every
\* card lies inside the block's rendering rectangle.
\* ------------------------------------------------------------------------
GapLength == Inches(horizontalCardGap[1], horizontalCardGap[2])

CardsEvenlyInsideBlock ==
    (listPc = "done" /\ cardCount >= 1) =>
        /\ Len(cardShapes) = cardCount
        /\ cardLayout = "horizontal" =>
              /\ \A i \in 1..cardCount :
                    cardShapes[i].width =
                        Floor(renderingRectangle.width
                                - GapLength * (cardCount - 1), cardCount)
              /\ \A i \in 2..cardCount :
                    cardShapes[i].left =
                        cardShapes[i - 1].left + cardShapes[i - 1].width
                            + GapLength
        /\ cardLayout # "horizontal" =>
              /\ \A i \in 1..cardCount :
                    cardShapes[i].height = cardShapes[1].height
              /\ \A i \in 3..cardCount :
                    cardShapes[i].top - cardShapes[i - 1].top =
                        cardShapes[2].top - cardShapes[1].top
        /\ \A i \in 1..cardCount :
              /\ cardShapes[i].left >= renderingRectangle.left
              /\ cardShapes[i].left + cardShapes[i].width
                    <= renderingRectangle.left + renderingRectangle.width
              /\ cardShapes[i].top >= cardAreaTop
              /\ cardShapes[i].top + cardShapes[i].height
                    <= renderingRectangle.top + renderingRectangle.height

\* C21: when a media item of a graphics grid cannot be found, the table
\* block reports a missing item of the grid and renders no tile, and once
\* the slide is laid out every block of its sequence has been rendered
HasMissingMedia ==
    /\ mediaTableRows # <<>>
    /\ IsGraphicsGrid(mediaTableRows)
    /\ \E r \in 1..Len(mediaTableRows) :
           \E c \in 1..Len(mediaTableRows[r]) :
               mediaTableRows[r][c] = "missing"

MissingMediaSkipsBlockOnly ==
    HasMissingMedia =>
        /\ mediaTiles = <<>>
        /\ mediaPc \in {"loop", "done"} =>
               /\ Len(mediaReports) = 1
               /\ IsMissingAt(mediaTableRows, mediaReports[1])
        /\ mediaPc = "done" => mediaRendered = mediaSequence

MissingMediaWitness ==
    /\ HasMissingMedia
    /\ mediaPc = "done"
    /\ Len(mediaSequence) > 1
    /\ mediaRendered = mediaSequence
    /\ Len(mediaReports) = 1
    /\ \E r \in 1..Len(mediaTableRows) :
           \E c \in 1..Len(mediaTableRows[r]) :
               mediaTableRows[r][c] = "media"

\* the relative width of column c as the rows of the table give it: the
\* number of '-' of its token when the second row is the alignment row and
\* has the column, 1 otherwise
RelativeWidth(grid, c) ==
    IF Len(grid) > 1 /\ IsAlignmentRow(grid[2]) /\ c <= Len(grid[2])
    THEN CountChar(grid[2][c], "-")
    ELSE 1

RelativeWidths(grid) == [c \in 1..MaxRowLen(grid) |-> RelativeWidth(grid, c)]

DataRows(grid) ==
    IF Len(grid) > 1 /\ IsAlignmentRow(grid[2]) THEN Len(grid) - 1 ELSE Len(grid)

\* C27: column c of a ruled table is floor(tableWidth * w_c / sum of w)
\* wide, w_c the number of '-' of the column's alignment token and 1 for a
\* column missing from the alignment row or without an alignment row; the
\* widths sum to at most tableWidth; the table's height is the smaller of
\* the block's height and the rows times the per-row maximum
ColumnWidthsProportional ==
    shapePc = "shaped" =>
        LET tableWidth == newTableShape.width
            w == RelativeWidths(inputGrid)
        IN  /\ Len(colWidths) = Len(w)
            /\ \A c \in 1..Len(w) :
                   colWidths[c] = Floor(tableWidth * w[c], SumSeq(w))
            /\ SumSeq(colWidths) <= tableWidth
            /\ newTableShape.height =
                   Min(tblRectangle.height, DataRows(inputGrid) * Inches(1, 4))

\* the last cell of the maximal run of empty cells that directly follows
\* cell c of a row (c itself when no empty cell follows it)
RECURSIVE RunEnd(_, _)
RunEnd(tableRow, c) ==
    IF c < Len(tableRow) /\ tableRow[c + 1] = ""
    THEN RunEnd(tableRow, c + 1)
    ELSE c

FirstNonEmpty(tableRow) ==
    IF \E c \in 1..Len(tableRow) : tableRow[c] # ""
    THEN CHOOSE c \in 1..Len(tableRow) :
             /\ tableRow[c] # ""
             /\ \A d \in 1..(c - 1) : tableRow[d] = ""
    ELSE Len(tableRow) + 1

\* C28: with spanCells 'yes' every maximal run of empty cells directly after
\* a non-empty cell is merged with that cell into one cell that ends at the
\* run's last cell, the empty cells before the first non-empty cell of a
\* row are never merged, and with any other spanCells no cell is merged
EmptyRunsMergedWithAnchor ==
    /\ spanPc # "ValueError"
    /\ spanPc = "done" =>
           \A r \in 1..Len(spanTableRows) :
               LET tableRow == spanTableRows[r]
               IN  \A c \in 1..Len(tableRow) :
                       IF spanCells = "yes"
                       THEN /\ tableRow[c] # "" =>
                                /\ gridSpan[r][c] = RunEnd(tableRow, c) - c + 1
                                /\ ~ hMerge[r][c]
                                /\ \A d \in (c + 1)..RunEnd(tableRow, c) :
                                       hMerge[r][d]
                            /\ c < FirstNonEmpty(tableRow) =>
                                   gridSpan[r][c] = 1 /\ ~ hMerge[r][c]
                       ELSE gridSpan[r][c] = 1 /\ ~ hMerge[r][c]

EmptyRunsWitness ==
    /\ spanPc = "done"
    /\ spanCells = "yes"
    /\ \E r \in 1..Len(spanTableRows) :
           /\ spanTableRows[r][1] = ""
           /\ gridSpan[r][1] = 1
           /\ \E c \in 2..(Len(spanTableRows[r]) - 2) :
                  /\ spanTableRows[r][c] # ""
                  /\ gridSpan[r][c] = 3

\* ------------------------------------------------------------------------
\* C29: a media line read outside a card and outside a table opens a new
\* grid, whose first row it is, as the new last element of tableRows, and
\* appends exactly one 'table' tag to sequence; a media line read inside a
\* table adds its row to the last grid and appends no tag.
\* ------------------------------------------------------------------------
MediaLineRead ==
    /\ lineNumber' = lineNumber + 1
    /\ lineRead'.kind = "media"
    /\ ~ inCard
    /\ ~ inCode /\ ~ inHTMLCode /\ ~ inFencedCode

MediaLineOpensOrContinuesGrid ==
    MediaLineRead =>
        IF ~ inTable
        THEN /\ tableRows' = Append(tableRows, <<lineNumber>>)
             /\ sequence' = Append(sequence, "table")
        ELSE /\ tableRows # <<>>
             /\ tableRows' = AppendToLast(tableRows, lineNumber)
             /\ sequence' = sequence

MediaLineOpensGrid == [][MediaLineOpensOrContinuesGrid]_vars

\* ------------------------------------------------------------------------
\* C30: every code block the main pass opens, by a fence, by <pre> or <code>
\* or by a line indented four spaces outside a list, appends exactly one
\* 'code' tag to sequence when it opens; a line that continues the block
\* appends none.
\* ------------------------------------------------------------------------
CodeBlockOpened ==
    /\ lineNumber' = lineNumber + 1
    /\ Len(code') = Len(code) + 1

CodeBlockContinued ==
    /\ lineNumber' = lineNumber + 1
    /\ Len(code') = Len(code)
    /\ code' # code

CodeTags(tags) == CountTag(tags, "code", Len(tags))

CodeBlockTagged ==
    /\ CodeBlockOpened => CodeTags(sequence') = CodeTags(sequence) + 1
    /\ CodeBlockContinued => CodeTags(sequence') = CodeTags(sequence)

CodeBlockOpensWithOneTag == [][CodeBlockTagged]_vars

\* ------------------------------------------------------------------------
\* C31: a line of the form [text] is recorded as a table caption if and
\* only if the line before it is the most recent table row; a line so
\* recorded is added neither to the notes nor to the subtitle.
\* ------------------------------------------------------------------------
BracketedLineRead ==
    /\ lineNumber' = lineNumber + 1
    /\ lineRead'.kind = "caption"

RecordedAsCaption == tableCaptions' = Append(tableCaptions, <<lineNumber>>)

CaptionFollowsTableRow ==
    BracketedLineRead =>
        /\ RecordedAsCaption <=> lineRead.kind = "row"
        /\ ~ RecordedAsCaption =>
               \A i \in DOMAIN tableCaptions' :
                   tableCaptions'[i] # <<lineNumber>>
        /\ RecordedAsCaption =>
               /\ notes_text' = notes_text
               /\ slideSubtitle' = slideSubtitle

CaptionOnlyAfterTableRow == [][CaptionFollowsTableRow]_vars

\* ------------------------------------------------------------------------
\* C32: a plain text line is added to the subtitle if and only if the open
\* slide was opened by a heading of title or section level and no blank
\* line or other block was read since that heading; in every other state
\* it is added to the notes, so that a slide opened by a heading of content
\* level never gets subtitle text.
\* ------------------------------------------------------------------------
PlainTextRead ==
    /\ lineNumber' = lineNumber + 1
    /\ lineRead'.kind = "text"
    /\ ~ inCode /\ ~ inHTMLCode /\ ~ inFencedCode

TextGoesToSubtitleOrNotes ==
    PlainTextRead =>
        IF titleRegion
        THEN /\ slideSubtitle' = Append(slideSubtitle, lineNumber)
             /\ notes_text' = notes_text
        ELSE /\ notes_text' = Append(notes_text, lineNumber)
             /\ slideSubtitle' = slideSubtitle

OpensComment(input, j) == StartsComment(input[j]) /\ ~ EndsComment(input[j])

\* after line i a comment is open: some line up to i opened one and no line
\* after that one, up to i, ends with '-->'
CommentOpenAfter(input, i) ==
    \E j \in 1..i :
        /\ OpensComment(input, j)
        /\ \A k \in (j + 1)..i : ~ EndsComment(input[k])

\* the lines of a stream that are made of input line i (counted from 1)
CopiesOf(stream, i) ==
    Cardinality({e \in DOMAIN stream : stream[e].parts = <<i - 1>>})

RemovedByPass1(i) ==
    CopiesOf(metadata_lines, i) + CopiesOf(afterMetadataAndHTML, i) = 0

CommentsRemovedOnly ==
    normalizePc # "input" =>
        /\ \A i \in 1..Len(input_file) :
               /\ RemovedByPass1(i) =>
                      \/ StartsComment(input_file[i])
                      \/ CommentOpenAfter(input_file, i - 1)
               /\ input_file[i] = "directive" =>
                      CopiesOf(metadata_lines, i)
                          + CopiesOf(afterMetadataAndHTML, i) = 1
        /\ \A i \in 0..Len(input_file) :
               Pass1Over(Pass1Start, SubSeq(input_file, 1, i), 1).in_comment
                   = CommentOpenAfter(input_file, i)

\* ------------------------------------------------------------------------
\* C34: whenever a heading of slide level opens a slide, the first heading
\* of the document included, the new slide starts with empty sequence,
\* bullets, tables, cards and code and with inList and inTable false.
\* ------------------------------------------------------------------------
SlideOpened == SlideHeadingRead /\ raised' = ""

NewSlideIsEmpty ==
    SlideOpened =>
        /\ sequence' = <<>>
        /\ bullets' = <<>>
        /\ tableRows' = <<>>
        /\ cards' = <<>>
        /\ code' = <<>>
        /\ ~ inList'
        /\ ~ inTable'

NewSlideStartsEmpty == [][NewSlideIsEmpty]_vars

\* ------------------------------------------------------------------------
\* C35: a line inside an open code block is recorded in that block only: it
\* adds no bullet, table row, card, task, slide, sequence tag, notes or
\* subtitle text, whatever it starts with.
\* ------------------------------------------------------------------------
LineInsideCodeRead ==
    /\ lineNumber' = lineNumber + 1
    /\ inCode /\ inFencedCode
    /\ lineRead'.kind # "fence"
    /\ raised' = ""

CodeLineRecordedInBlockOnly ==
    LineInsideCodeRead =>
        /\ code' = AppendToLast(code, lineNumber)
        /\ bullets' = bullets
        /\ tableRows' = tableRows
        /\ cards' = cards
        /\ tasks' = tasks
        /\ slides' = slides
        /\ sequence' = sequence
        /\ notes_text' = notes_text
        /\ slideSubtitle' = slideSubtitle

CodeLinesStayInCode == [][CodeLineRecordedInBlockOnly]_vars

\* ------------------------------------------------------------------------
\* C36: after compilation every heading reference declared on a slide
\* heading or on a card heading is mapped so that the link fix-up, which
\* takes the slide at index (mapped number - 2) counted from 0, resolves it
\* to the slide that holds the heading.
\* ------------------------------------------------------------------------
\* the ordinal, from 1, of the slide the fix-up resolves a reference to
ResolvedSlide(reference) == slideHrefs[reference] - 2 + 1

ReferencesResolveToTheirSlide ==
    (compilePc = "done" /\ raised = "") =>
        \A d \in DOMAIN declaredRefs :
            declaredRefs[d].ordinal >= 1 =>
                /\ declaredRefs[d].ref \in DOMAIN slideHrefs
                /\ ResolvedSlide(declaredRefs[d].ref) = declaredRefs[d].ordinal

\* ------------------------------------------------------------------------
\* C37: the slide-number counter is 1 plus the number of slides emitted so
\* far: every slide created advances it by exactly one, in
\* createFootnoteSlides and createGlossarySlides as in the main pass.
\* ------------------------------------------------------------------------
PageEmitted == Len(pagesEmitted') = Len(pagesEmitted) + 1

CounterFollowsPages ==
    /\ PageEmitted => pgSlideNumber' = pgSlideNumber + 1
    /\ ~ PageEmitted => pgSlideNumber' = pgSlideNumber

SlideNumberCountsSlides == [][CounterFollowsPages]_vars

\* ------------------------------------------------------------------------
\* C38: every emitted slide that holds at least one card has a 'list' tag
\* in its sequence, so that createContentSlide calls createListBlock for it.
\* ------------------------------------------------------------------------
SlidesWithCardsHaveListTag ==
    \A i \in DOMAIN slides :
        slides[i].cards # <<>> =>
            CountTag(slides[i].sequence, "list", BlocksToRender(slides[i])) >= 1

\* ------------------------------------------------------------------------
\* C39: a slide opened by a heading of title level is emitted with block
\* type "title", and one opened by a heading of section level with block
\* type "section", whatever table, media or code lines followed the heading
\* before the next heading that opens a slide.
\* ------------------------------------------------------------------------
OpenedAtLevel(slideInfo, level) ==
    \E j \in DOMAIN slideHeadings :
        /\ j \in DOMAIN headingLevels
        /\ slideInfo.titleText = <<slideHeadings[j]>>
        /\ headingLevels[j] = level

TitleAndSectionSlidesKeepBlockType ==
    \A i \in DOMAIN slides :
        /\ OpenedAtLevel(slides[i], titleLevel)
               => slides[i].blockType = "title"
        /\ OpenedAtLevel(slides[i], sectionLevel)
               => slides[i].blockType = "section"

====
